---- MODULE Spec2Model ----
(***************************************************************************)
(* drfs: a parallel directory crawler (dir.rs) that flattens a directory   *)
(* tree into a key -> Entry store (store/memstorage.rs) behind an          *)
(* EntryWrapper facade (entry.rs).                                         *)
(*                                                                         *)
(* A path_key is modelled as a node number: the crawl root is 0 and the    *)
(* other filesystem objects are 1..n.  Option<T> is modelled as a sequence *)
(* of length at most one: None is <<>>, Some(x) is <<x>>.                  *)
(***************************************************************************)
EXTENDS Integers, Sequences, FiniteSets, TLC

\* ---------------------------------------------------------------- bounds
\* Largest number of filesystem objects below the crawl root.
MaxNodes == 3
\* Largest value num_cpus::get() takes (worker threads per crawl).
MaxWorkers == 2
\* Number of load_all_children calls a behaviour makes on one wrapper.
MaxLoads == 2

\* Largest number of Store calls the client threads make.
MaxOps == 3

VARIABLES
    fs,          \* the directory tree on disk (input, never written)
    ncpu,        \* num_cpus::get()
    entry,       \* EntryWrapper.entry: the displayed Entry
    storage,     \* EntryWrapper.storage: None, or Some(contents of MemStorage.map)
    lock,        \* holder of MemStorage.map's Mutex (0: free)
    mpc,         \* where the thread calling the wrapper is
    lastCall,    \* the last load_all_children call: the entry it was made on
                 \* (kind, key, length of children) and how it went
    loads,       \* number of load_all_children calls made so far
    queue,       \* the Injector (global queue)
    local,       \* local[w]: worker w's FIFO deque
    wpc,         \* wpc[w]: where worker w is in its loop
    task,        \* task[w]: Option of the task worker w holds
    wpush,       \* wpush[w]: Directory children still to push on the Injector
    wfiles,      \* wfiles[w]: file_entries still to store
    werrs,       \* werrs[w]: errors still to send
    speer,       \* speer[w]: index of the next stealer to try
    sretry,      \* sretry[w]: some steal of the current pass reported Retry
    ssnap,       \* ssnap[w]: the front task a steal in progress has read
    mode,        \* what the workers of the running call do: "crawl" (load_all_children),
                 \* "count" (count_entries_multi), "size" (calculate_size_all_children_multi)
    total,       \* total_entries / total_size of a parallel query (AtomicUsize)
    counter,     \* the in-flight counter (AtomicIsize)
    chan,        \* the mpsc channel: messages sent and not yet received
    cpc,         \* where the error-collector thread is
    all_errors,  \* all_errors of the running call
    ret,         \* Option of the error list the last completed call returned
    qres,        \* result of the last aggregate query that returned
    pushed,      \* pushed[k]: times Directory k was pushed on the Injector
    expanded,    \* expanded[k]: times a worker expanded Directory task k
    client,      \* client[c]: the Store call thread c is making, or made last
    abs,         \* the map the calls made so far give when taken one at a time,
                 \* in the order in which they took effect
    hist,        \* the last two calls that took effect, the older one first
    ops,         \* number of Store calls made so far by the client threads
    nset,        \* nset[k]: values put under key k so far
    npulled,     \* npulled[k]: values pull_out has handed out for key k
    lastNav      \* the last replace_from_storage call since the last load: its
                 \* key, and the parent and children of the entry displayed then

vars == <<fs, ncpu, entry, storage, lock, mpc, lastCall, loads, queue, local,
          wpc, task, wpush, wfiles, werrs, speer, sretry, ssnap, mode, total,
          counter, chan, cpc, all_errors, ret, qres, pushed, expanded,
          client, abs, hist, ops, nset, npulled, lastNav>>

\* The state of the threads that call the Store directly.
clientVars == <<client, abs, hist, ops, nset, npulled>>

\* ------------------------------------------------------------- sequences
None == <<>>

Some(x) == <<x>>

Last(s) == s[Len(s)]

Front(s) == SubSeq(s, 1, Len(s) - 1)

RECURSIVE Reverse(_)
Reverse(s) == IF s = <<>> THEN <<>> ELSE Append(Reverse(Tail(s)), Head(s))

\* ------------------------------------------------------- the filesystem
Root == 0

Keys == 0 .. (MaxNodes + 1)

\* What the filesystem answers for one object:
\*   "file"    a regular file
\*   "dir"     a directory that read_dir can list
\*   "nolist"  a directory on which read_dir fails
\*   "bad"     a listed object that yields no Entry (the listing item is an
\*             Err, or its metadata/name cannot be captured)
NodeStates == {"file", "dir", "nolist", "bad"}

Nodes(f) == 1 .. Len(f.nodes)

WellFormedTree(f) ==
    \A i \in Nodes(f) :
        /\ f.nodes[i].parent < i
        /\ IF f.nodes[i].parent = Root
             THEN f.root = "dir"
             ELSE f.nodes[f.nodes[i].parent].st = "dir"

TreesOfSize(n) ==
    { f \in [root : {"dir"}, nodes : [1 .. n -> [parent : 0 .. (n - 1), st : NodeStates]]] :
        WellFormedTree(f) }

\* Every tree with at most MaxNodes objects below a listable root, a root
\* that cannot be listed, and a root that is a regular file.
Trees ==
    UNION { TreesOfSize(n) : n \in 0 .. MaxNodes }
      \cup { [root |-> "nolist", nodes |-> <<>>], [root |-> "file", nodes |-> <<>>] }

NodeSt(k) == IF k = Root THEN fs.root ELSE fs.nodes[k].st

\* metadata.len() of object k: a power of two of its own (the root's is 1),
\* but 0 for object 2.
StatSize(k) == IF k = 2 THEN 0 ELSE 2 ^ k

\* fs::read_dir(path of k): the objects directly inside k, in listing order.
ReadDir(k) ==
    SelectSeq([i \in Nodes(fs) |-> i], LAMBDA i : fs.nodes[i].parent = k)

\* ------------------------------------------------------------- entries
DirEntryNew(k, parent) ==
    [kind |-> "Dir", key |-> k, size |-> StatSize(k), parent |-> parent,
     children |-> <<>>]

FileEntryNew(k, parent) ==
    [kind |-> "File", key |-> k, size |-> StatSize(k), parent |-> parent,
     children |-> <<>>]

\* Mutant: the parent key is dropped, every Entry is made without one.
EntryNewOrphan(k, parent) ==
    IF NodeSt(k) \in {"dir", "nolist"}
      THEN DirEntryNew(k, None)
      ELSE FileEntryNew(k, None)

\* Entry::new_with_parent on an object that can be captured.
EntryNewWithParent(k, parent) ==
    IF NodeSt(k) \in {"dir", "nolist"}
      THEN DirEntryNew(k, parent)
      ELSE FileEntryNew(k, parent)

EntryNew(k) == EntryNewWithParent(k, None)

GetFormatPath(e) == e.key

ReadDirError(k) == [kind |-> "read_dir", key |-> k]

CaptureError(k) == [kind |-> "capture", key |-> k]

\* Mutant: the listing stops at the first child that yields no Entry.
RECURSIVE LoadListingStopAtError(_, _, _, _)
LoadListingStopAtError(d, listing, entries, errors) ==
    IF listing = <<>>
      THEN [entries |-> entries, errors |-> errors]
      ELSE IF NodeSt(Head(listing)) = "bad"
        THEN [entries |-> entries,
              errors |-> Append(errors, CaptureError(Head(listing)))]
        ELSE LoadListingStopAtError(d, Tail(listing),
                         Append(entries,
                                EntryNewWithParent(Head(listing), Some(GetFormatPath(d)))),
                         errors)

RECURSIVE LoadListing(_, _, _, _)
LoadListing(d, listing, entries, errors) ==
    IF listing = <<>>
      THEN [entries |-> entries, errors |-> errors]
      ELSE IF NodeSt(Head(listing)) = "bad"
        THEN LoadListing(d, Tail(listing), entries,
                         Append(errors, CaptureError(Head(listing))))
        ELSE LoadListing(d, Tail(listing),
                         Append(entries,
                                EntryNewWithParent(Head(listing), Some(GetFormatPath(d)))),
                         errors)

\* DirEntry::get_load_children: (entries, errors).
GetLoadChildren(d) ==
    IF NodeSt(d.key) = "nolist"
      THEN [entries |-> <<>>, errors |-> <<ReadDirError(d.key)>>]
      ELSE LoadListing(d, ReadDir(d.key), <<>>, <<>>)

RECURSIVE PathKeys(_)
PathKeys(children) ==
    IF children = <<>>
      THEN <<>>
      ELSE <<GetFormatPath(Head(children))>> \o PathKeys(Tail(children))

\* Mutant: the keys are recorded last child first.
CloneChildrenLastFirst(d, children) ==
    [d EXCEPT !.children = d.children \o Reverse(PathKeys(children))]

\* DirEntry::clone_children_to_current.
CloneChildrenToCurrent(d, children) ==
    [d EXCEPT !.children = d.children \o PathKeys(children)]

IsDir(e) == e.kind = "Dir"

IsFile(e) == e.kind = "File"

\* Mutant: every child is pushed on the Injector, the Files as well.
DirsToPushAll(children) == Reverse(children)

\* DirEntry::add_children_to_queue pops the children from the back: the
\* Directory children in the order they are pushed on the Injector ...
DirsToPush(children) == SelectSeq(Reverse(children), IsDir)

\* Mutant: the Directory children are returned, and so stored, as well as
\* pushed.
FileEntriesAll(children) == Reverse(children)

\* ... and the file_entries vector it returns.
FileEntries(children) == SelectSeq(Reverse(children), IsFile)

\* --------------------------------------------------------------- store
\* HashMap::insert
MapInsert(m, k, v) == [x \in (DOMAIN m) \cup {k} |-> IF x = k THEN v ELSE m[x]]

\* HashMap::get(key).cloned()
MapGet(m, k) == IF k \in DOMAIN m THEN Some(m[k]) ELSE None

\* Mutant: the key is looked up but its entry is left in the map.
MapRemoveKeeps(m, k) == m

\* HashMap::remove: the map it leaves
MapRemove(m, k) == [x \in (DOMAIN m) \ {k} |-> m[x]]

EmptyMap == <<>>

RECURSIVE InsertAll(_, _)
InsertAll(m, entries) ==
    IF entries = <<>>
      THEN m
      ELSE InsertAll(MapInsert(m, GetFormatPath(Head(entries)), Head(entries)),
                     Tail(entries))

\* Mutant: the calling thread stores the root entry as well.
StoreFileEntriesAndRoot(st, file_entries) ==
    IF st = None
      THEN None
      ELSE Some(InsertAll(MapInsert(st[1], Root, EntryNew(Root)), Reverse(file_entries)))

\* DirEntry::store_entry for each popped element of file_entries, by the
\* calling thread before any worker exists.
StoreFileEntries(st, file_entries) ==
    IF st = None THEN None ELSE Some(InsertAll(st[1], Reverse(file_entries)))

\* --------------------------------------------------- sequential queries
\* Mutant: only File entries are counted.
RECURSIVE CountWalkFilesOnly(_, _, _)
CountWalkFilesOnly(m, stack, n) ==
    IF stack = <<>>
      THEN n
      ELSE LET got == MapGet(m, Last(stack))
           IN  IF got = None
                 THEN CountWalkFilesOnly(m, Front(stack), n)
                 ELSE CountWalkFilesOnly(m,
                                         IF IsDir(got[1])
                                           THEN Front(stack) \o got[1].children
                                           ELSE Front(stack),
                                         IF IsFile(got[1]) THEN n + 1 ELSE n)

\* Mutant: the walk ends at the first key the Store does not have.
RECURSIVE CountWalkEndsAtAbsent(_, _, _)
CountWalkEndsAtAbsent(m, stack, n) ==
    IF stack = <<>>
      THEN n
      ELSE LET got == MapGet(m, Last(stack))
           IN  IF got = None
                 THEN n
                 ELSE CountWalkEndsAtAbsent(m,
                                            IF IsDir(got[1])
                                              THEN Front(stack) \o got[1].children
                                              ELSE Front(stack),
                                            n + 1)

RECURSIVE CountWalk(_, _, _)
CountWalk(m, stack, n) ==
    IF stack = <<>>
      THEN n
      ELSE LET got == MapGet(m, Last(stack))
           IN  IF got = None
                 THEN CountWalk(m, Front(stack), n)
                 ELSE CountWalk(m,
                                IF IsDir(got[1])
                                  THEN Front(stack) \o got[1].children
                                  ELSE Front(stack),
                                n + 1)

\* Mutant: without a Store nothing is counted.
DirCountEntriesNothingKnown(dir, st) ==
    IF st = None THEN 0 ELSE CountWalk(st[1], dir.children, 0)

\* DirEntry::count_entries
DirCountEntries(dir, st) ==
    IF st = None THEN Len(dir.children) ELSE CountWalk(st[1], dir.children, 0)

RECURSIVE SizeWalk(_, _, _)
SizeWalk(m, stack, tot) ==
    IF stack = <<>>
      THEN tot
      ELSE LET got == MapGet(m, Last(stack))
           IN  IF got = None
                 THEN SizeWalk(m, Front(stack), tot)
                 ELSE SizeWalk(m,
                               IF IsDir(got[1])
                                 THEN Front(stack) \o got[1].children
                                 ELSE Front(stack),
                               tot + got[1].size)

\* DirEntry::calculate_size_all_children
DirCalculateSize(dir, st) ==
    IF st = None THEN 0 ELSE SizeWalk(st[1], dir.children, 0)

\* Mutant: get hands out the stored entry itself, not a copy: draining the
\* children of what was fetched under k drains the stored entry.
AfterDrainAliased(m, k) == [m EXCEPT ![k].children = <<>>]

\* The map after queue.append(&mut dir.children) on the entry fetched under
\* k: get(key).cloned() hands out an independent copy, the map is as it was.
AfterDrain(m, k) == m

\* The map a sequential walk (count_entries, calculate_size_all_children)
\* leaves behind.
RECURSIVE WalkStore(_, _)
WalkStore(m, stack) ==
    IF stack = <<>>
      THEN m
      ELSE LET got == MapGet(m, Last(stack))
           IN  IF got # None /\ IsDir(got[1])
                 THEN WalkStore(AfterDrain(m, Last(stack)),
                                Front(stack) \o got[1].children)
                 ELSE WalkStore(m, Front(stack))

\* The Store after a sequential query on entry e.
StoreAfterWalk(e, st) ==
    IF IsFile(e) \/ st = None THEN st ELSE Some(WalkStore(st[1], e.children))

\* EntryWrapper::count_entries
WrapperCountEntries(e, st) == IF IsFile(e) THEN 1 ELSE DirCountEntries(e, st)

\* EntryWrapper::calculate_size
WrapperCalculateSize(e, st) == IF IsFile(e) THEN e.size ELSE DirCalculateSize(e, st)

\* ------------------------------------------------------------- threads
\* A task of the crawl is an owned Directory entry; a task of a parallel
\* query is a path_key, written [key |-> k].  Either way its key names it.
TaskId(t) == t.key

KeyTask(k) == [key |-> k]

\* Mutant: only the first key is pushed.
KeyTasksFirstOnly(keys) ==
    IF keys = <<>> THEN <<>> ELSE <<KeyTask(Head(keys))>>

RECURSIVE KeyTasks(_)
KeyTasks(keys) ==
    IF keys = <<>> THEN <<>> ELSE <<KeyTask(Head(keys))>> \o KeyTasks(Tail(keys))

Workers == 1 .. ncpu

NoWorkers == [w \in Workers |-> <<>>]

ZeroCount == [k \in Keys |-> 0]

RECURSIVE CountPushes(_, _)
CountPushes(cnt, dirs) ==
    IF dirs = <<>>
      THEN cnt
      ELSE CountPushes([cnt EXCEPT ![TaskId(Head(dirs))] = @ + 1], Tail(dirs))

\* Mutant: the worker does not store the task it has expanded.
AfterExpandTaskNotStored(errs, dirs, files) ==
    IF errs # <<>> THEN "send"
    ELSE IF dirs # <<>> THEN "push"
    ELSE IF mode # "crawl" \/ storage = None THEN "dec"
    ELSE IF files # <<>> THEN "store_file"
    ELSE "dec"

\* Mutant: the file_entries are dropped, the task is stored at once.
AfterExpandFilesNotStored(errs, dirs, files) ==
    IF errs # <<>> THEN "send"
    ELSE IF dirs # <<>> THEN "push"
    ELSE IF mode # "crawl" \/ storage = None THEN "dec"
    ELSE "store_task"

\* Where a worker that holds an expanded task goes next: send the errors,
\* then push the Directory children, then store the file_entries, then
\* store the task itself.  A parallel query only pushes.
AfterExpand(errs, dirs, files) ==
    IF errs # <<>> THEN "send"
    ELSE IF dirs # <<>> THEN "push"
    ELSE IF mode # "crawl" \/ storage = None THEN "dec"
    ELSE IF files # <<>> THEN "store_file"
    ELSE "store_task"

\* No replace_from_storage call since the last load.
NoNav == [called |-> FALSE, key |-> Root, parent |-> None, children |-> <<>>]

\* Entry::get_parent
GetParent(e) == e.parent

\* Entry::get_children: a File has none.
GetChildren(e) == IF IsDir(e) THEN e.children ELSE <<>>

\* No aggregate query has returned since the wrapper last changed.
NoResult == [op |-> "none", val |-> 0]

\* ---------------------------------------------------- the calling thread
\* EntryWrapper::load_all_children on a File entry: returns vec![].
LoadFile ==
    /\ mpc = "idle"
    /\ loads < MaxLoads
    /\ IsFile(entry)
    /\ loads' = loads + 1
    /\ lastCall' = [kind |-> "File", key |-> GetFormatPath(entry), children |-> 0,
                    outcome |-> "returned"]
    /\ ret' = Some(<<>>)
    /\ qres' = NoResult
    /\ lastNav' = NoNav
    /\ UNCHANGED <<clientVars, fs, ncpu, mode, total, entry, storage, lock, mpc, queue, local, wpc, task,
                   wpush, wfiles, werrs, speer, sretry, ssnap, counter, chan, cpc,
                   all_errors, pushed, expanded>>

\* Mutant: the guard is missing.
AlreadyLoadedNever(dir) == FALSE

\* The guard of DirEntry::load_all_children_with_storage.
AlreadyLoaded(dir) == Len(dir.children) # 0

\* load_all_children on a Directory that already has children: panic.
LoadPanic ==
    /\ mpc = "idle"
    /\ loads < MaxLoads
    /\ IsDir(entry)
    /\ AlreadyLoaded(entry)
    /\ loads' = loads + 1
    /\ lastCall' = [kind |-> "Dir", key |-> GetFormatPath(entry),
                    children |-> Len(entry.children), outcome |-> "panic"]
    /\ mpc' = "panicked"
    /\ qres' = NoResult
    /\ lastNav' = NoNav
    /\ UNCHANGED <<clientVars, fs, ncpu, mode, total, entry, storage, lock, queue, local, wpc, task,
                   wpush, wfiles, werrs, speer, sretry, ssnap, counter, chan, cpc,
                   all_errors, ret, pushed, expanded>>

\* load_all_children_with_storage up to the spawn of the collector and the
\* workers: list the root, record its children, push the Directory
\* children, store the File children.
LoadStart ==
    /\ mpc = "idle"
    /\ loads < MaxLoads
    /\ IsDir(entry)
    /\ ~AlreadyLoaded(entry)
    /\ LET got == GetLoadChildren(entry)
           dirs == DirsToPush(got.entries)
       IN  /\ all_errors' = got.errors
           /\ entry' = CloneChildrenToCurrent(entry, got.entries)
           /\ queue' = dirs
           /\ pushed' = CountPushes(ZeroCount, dirs)
           /\ storage' = StoreFileEntries(storage, FileEntries(got.entries))
    /\ loads' = loads + 1
    /\ lastCall' = [kind |-> "Dir", key |-> GetFormatPath(entry),
                    children |-> Len(entry.children), outcome |-> "crawl"]
    /\ expanded' = ZeroCount
    /\ counter' = 0
    /\ chan' = <<>>
    /\ cpc' = "recv"
    /\ local' = NoWorkers
    /\ wpc' = [w \in Workers |-> "find"]
    /\ task' = [w \in Workers |-> None]
    /\ wpush' = NoWorkers
    /\ wfiles' = NoWorkers
    /\ werrs' = NoWorkers
    /\ speer' = [w \in Workers |-> 1]
    /\ sretry' = [w \in Workers |-> FALSE]
    /\ ssnap' = NoWorkers
    /\ ret' = None
    /\ mpc' = "join"
    /\ qres' = NoResult
    /\ lastNav' = NoNav
    /\ UNCHANGED <<clientVars, fs, ncpu, lock, total>>
    /\ mode' = "crawl"

\* Mutant: the end marker is sent without joining the workers.
AllWorkersExitedNotAwaited == TRUE

AllWorkersExited == \A w \in Workers : wpc[w] = "exited"

\* handle.join() of every worker, then tx.send(None).
JoinWorkers ==
    /\ mpc = "join"
    /\ AllWorkersExited
    /\ chan' = Append(chan, None)
    /\ mpc' = "scope_end"
    /\ UNCHANGED <<clientVars, lastNav, fs, ncpu, mode, total, entry, storage, lock, lastCall, loads, queue, local,
                   wpc, task, wpush, wfiles, werrs, speer, sretry, ssnap, counter, cpc,
                   all_errors, ret, qres, pushed, expanded>>

\* The scope ends once the collector thread has ended; all_errors is returned.
LoadReturn ==
    /\ mpc = "scope_end"
    /\ cpc = "done"
    /\ ret' = Some(all_errors)
    /\ lastCall' = [lastCall EXCEPT !.outcome = "returned"]
    /\ mpc' = "idle"
    /\ UNCHANGED <<clientVars, lastNav, fs, ncpu, mode, total, entry, storage, lock, loads, queue, local, wpc, task,
                   wpush, wfiles, werrs, speer, sretry, ssnap, counter, chan, cpc,
                   all_errors, qres, pushed, expanded>>

\* --------------------------------------------------- the error collector
\* rx.recv(): None ends the thread, Some(error) is pushed on all_errors.
CollectorRecv ==
    /\ cpc = "recv"
    /\ chan # <<>>
    /\ chan' = Tail(chan)
    /\ IF Head(chan) = None
         THEN cpc' = "done" /\ UNCHANGED all_errors
         ELSE all_errors' = Append(all_errors, Head(chan)[1]) /\ UNCHANGED cpc
    /\ UNCHANGED <<clientVars, lastNav, fs, ncpu, mode, total, entry, storage, lock, mpc, lastCall, loads, queue,
                   local, wpc, task, wpush, wfiles, werrs, speer, sretry, ssnap, counter,
                   ret, qres, pushed, expanded>>

\* ------------------------------------------------------------- workers
callerVars == <<fs, ncpu, entry, mpc, lastCall, loads, ret, qres, mode, clientVars,
               lastNav>>

\* find_task: local.pop().  The deque is FIFO (Worker::new_fifo).
FindLocal(w) ==
    /\ wpc[w] = "find"
    /\ IF local[w] # <<>>
         THEN /\ task' = [task EXCEPT ![w] = Some(Head(local[w]))]
              /\ local' = [local EXCEPT ![w] = Tail(@)]
              /\ wpc' = [wpc EXCEPT ![w] = "inc"]
         ELSE /\ wpc' = [wpc EXCEPT ![w] = "steal_global"]
              /\ UNCHANGED <<task, local>>
    /\ sretry' = [sretry EXCEPT ![w] = FALSE]
    /\ UNCHANGED <<callerVars, total, storage, lock, queue, wpush, wfiles, werrs, speer,
                   ssnap, counter, chan, cpc, all_errors, pushed, expanded>>

\* global.steal_batch_and_pop(local), first half: read the Injector.  An
\* empty Injector answers Empty at once.
StealGlobal(w) ==
    /\ wpc[w] = "steal_global"
    /\ IF queue = <<>>
         THEN /\ wpc' = [wpc EXCEPT ![w] = "steal_peer"]
              /\ speer' = [speer EXCEPT ![w] = 1]
              /\ UNCHANGED ssnap
         ELSE /\ wpc' = [wpc EXCEPT ![w] = "cas_global"]
              /\ ssnap' = [ssnap EXCEPT ![w] = Some(TaskId(Head(queue)))]
              /\ UNCHANGED speer
    /\ UNCHANGED <<callerVars, total, storage, lock, queue, local, task, wpush, wfiles,
                   werrs, sretry, counter, chan, cpc, all_errors, pushed, expanded>>

\* The front of a queue is still the task a steal has read.
FrontUnchanged(q, snap) == q # <<>> /\ Some(TaskId(Head(q))) = snap

\* global.steal_batch_and_pop(local), second half: claim a batch.  Success
\* returns the first task of the batch and moves the rest to the local
\* deque; when another thread took the front in between, Retry.
CasGlobal(w) ==
    /\ wpc[w] = "cas_global"
    /\ IF FrontUnchanged(queue, ssnap[w])
         THEN \E n \in 1 .. Len(queue) :
                /\ task' = [task EXCEPT ![w] = Some(Head(queue))]
                /\ local' = [local EXCEPT ![w] = @ \o SubSeq(queue, 2, n)]
                /\ queue' = SubSeq(queue, n + 1, Len(queue))
                /\ wpc' = [wpc EXCEPT ![w] = "inc"]
                /\ UNCHANGED <<sretry, speer>>
         ELSE /\ sretry' = [sretry EXCEPT ![w] = TRUE]
              /\ speer' = [speer EXCEPT ![w] = 1]
              /\ wpc' = [wpc EXCEPT ![w] = "steal_peer"]
              /\ UNCHANGED <<task, local, queue>>
    /\ ssnap' = [ssnap EXCEPT ![w] = None]
    /\ UNCHANGED <<callerVars, total, storage, lock, wpush, wfiles, werrs, counter, chan,
                   cpc, all_errors, pushed, expanded>>

\* Mutant: the pass is never repeated, find_task gives up after the last
\* stealer whether or not a steal reported Retry.
NextStealerGivesUp(w, retry) ==
    IF speer[w] < ncpu
      THEN /\ speer' = [speer EXCEPT ![w] = @ + 1]
           /\ sretry' = [sretry EXCEPT ![w] = retry]
           /\ wpc' = [wpc EXCEPT ![w] = "steal_peer"]
      ELSE /\ speer' = [speer EXCEPT ![w] = 1]
           /\ sretry' = [sretry EXCEPT ![w] = FALSE]
           /\ wpc' = [wpc EXCEPT ![w] = "chk_counter"]

\* After stealer speer[w] gave no task: try the next stealer, or end the
\* pass: repeat it when some steal reported Retry, else find_task is None
\* and the worker snoozes and goes to its exit test.
NextStealer(w, retry) ==
    IF speer[w] < ncpu
      THEN /\ speer' = [speer EXCEPT ![w] = @ + 1]
           /\ sretry' = [sretry EXCEPT ![w] = retry]
           /\ wpc' = [wpc EXCEPT ![w] = "steal_peer"]
      ELSE /\ speer' = [speer EXCEPT ![w] = 1]
           /\ sretry' = [sretry EXCEPT ![w] = FALSE]
           /\ wpc' = [wpc EXCEPT ![w] = IF retry THEN "steal_global" ELSE "chk_counter"]

\* stealers[speer[w]].steal(), first half: read that worker's deque.
StealPeer(w) ==
    /\ wpc[w] = "steal_peer"
    /\ IF local[speer[w]] = <<>>
         THEN NextStealer(w, sretry[w]) /\ UNCHANGED ssnap
         ELSE /\ wpc' = [wpc EXCEPT ![w] = "cas_peer"]
              /\ ssnap' = [ssnap EXCEPT ![w] = Some(TaskId(Head(local[speer[w]])))]
              /\ UNCHANGED <<speer, sretry>>
    /\ UNCHANGED <<callerVars, total, storage, lock, queue, local, task, wpush, wfiles,
                   werrs, counter, chan, cpc, all_errors, pushed, expanded>>

\* stealers[speer[w]].steal(), second half: take the front task, or Retry.
CasPeer(w) ==
    /\ wpc[w] = "cas_peer"
    /\ IF FrontUnchanged(local[speer[w]], ssnap[w])
         THEN /\ task' = [task EXCEPT ![w] = Some(Head(local[speer[w]]))]
              /\ local' = [local EXCEPT ![speer[w]] = Tail(@)]
              /\ wpc' = [wpc EXCEPT ![w] = "inc"]
              /\ UNCHANGED <<speer, sretry>>
         ELSE NextStealer(w, TRUE) /\ UNCHANGED <<task, local>>
    /\ ssnap' = [ssnap EXCEPT ![w] = None]
    /\ UNCHANGED <<callerVars, total, storage, lock, queue, wpush, wfiles, werrs, counter,
                   chan, cpc, all_errors, pushed, expanded>>

\* counter.fetch_add(1)
Inc(w) ==
    /\ wpc[w] = "inc"
    /\ counter' = counter + 1
    /\ wpc' = [wpc EXCEPT ![w] = IF mode = "crawl" THEN "expand" ELSE "get"]
    /\ UNCHANGED <<callerVars, total, storage, lock, queue, local, task, wpush, wfiles,
                   werrs, speer, sretry, ssnap, chan, cpc, all_errors, pushed,
                   expanded>>

\* The Directory task lists its children and records their keys.
Expand(w) ==
    /\ wpc[w] = "expand"
    /\ LET d == task[w][1]
           got == GetLoadChildren(d)
       IN  IF IsDir(d)
             THEN /\ task' = [task EXCEPT ![w] = Some(CloneChildrenToCurrent(d, got.entries))]
                  /\ werrs' = [werrs EXCEPT ![w] = got.errors]
                  /\ wpush' = [wpush EXCEPT ![w] = DirsToPush(got.entries)]
                  /\ wfiles' = [wfiles EXCEPT ![w] = FileEntries(got.entries)]
                  /\ expanded' = [expanded EXCEPT ![GetFormatPath(d)] = @ + 1]
                  /\ wpc' = [wpc EXCEPT ![w] =
                               AfterExpand(got.errors, DirsToPush(got.entries),
                                           FileEntries(got.entries))]
             ELSE /\ wpc' = [wpc EXCEPT ![w] = AfterExpand(<<>>, <<>>, <<>>)]
                  /\ UNCHANGED <<task, werrs, wpush, wfiles, expanded>>
    /\ UNCHANGED <<callerVars, total, storage, lock, queue, local, speer, sretry, ssnap,
                   counter, chan, cpc, all_errors, pushed>>

\* errors.pop() and tx.send(Some(error)).unwrap(): the send fails, and the
\* worker panics, once the receiver is gone.
SendError(w) ==
    /\ wpc[w] = "send"
    /\ IF cpc = "done"
         THEN /\ wpc' = [wpc EXCEPT ![w] = "panicked"]
              /\ UNCHANGED <<chan, werrs>>
         ELSE /\ chan' = Append(chan, Some(Last(werrs[w])))
              /\ werrs' = [werrs EXCEPT ![w] = Front(@)]
              /\ wpc' = [wpc EXCEPT ![w] = AfterExpand(Front(werrs[w]), wpush[w], wfiles[w])]
    /\ UNCHANGED <<callerVars, total, storage, lock, queue, local, task, wpush, wfiles,
                   speer, sretry, ssnap, counter, cpc, all_errors, pushed, expanded>>

\* add_children_to_queue: queue.push(child) for the next Directory child.
PushChild(w) ==
    /\ wpc[w] = "push"
    /\ queue' = Append(queue, Head(wpush[w]))
    /\ pushed' = [pushed EXCEPT ![TaskId(Head(wpush[w]))] = @ + 1]
    /\ wpush' = [wpush EXCEPT ![w] = Tail(@)]
    /\ wpc' = [wpc EXCEPT ![w] = AfterExpand(<<>>, Tail(wpush[w]), wfiles[w])]
    /\ UNCHANGED <<callerVars, total, storage, lock, local, task, wfiles, werrs, speer,
                   sretry, ssnap, counter, chan, cpc, all_errors, expanded>>

\* Mutant: the map is not behind a Mutex, lock() never waits.
LockFreeNoMutex == TRUE

\* Mutex::lock() returns only when no thread holds the guard.
LockFree == lock = 0

\* Mutant: the guard outlives the Store call, the thread keeps the lock.
ReleaseKept(w) == w

\* The guard is a temporary of the one statement of set / get / pull_out /
\* remove: it is dropped, and the lock free, when the call returns.
Release(w) == 0

\* self.map.lock() of MemStorage::set, for the next of file_entries.
StoreFileLock(w) ==
    /\ wpc[w] = "store_file"
    /\ LockFree
    /\ lock' = w
    /\ wpc' = [wpc EXCEPT ![w] = "store_file_set"]
    /\ UNCHANGED <<callerVars, total, storage, queue, local, task, wpush, wfiles, werrs,
                   speer, sretry, ssnap, counter, chan, cpc, all_errors, pushed,
                   expanded>>

\* insert(key, value) under the lock, which the end of set releases.
StoreFileSet(w) ==
    /\ wpc[w] = "store_file_set"
    /\ storage' = Some(MapInsert(storage[1], GetFormatPath(Last(wfiles[w])), Last(wfiles[w])))
    /\ wfiles' = [wfiles EXCEPT ![w] = Front(@)]
    /\ lock' = Release(w)
    /\ wpc' = [wpc EXCEPT ![w] = AfterExpand(<<>>, <<>>, Front(wfiles[w]))]
    /\ UNCHANGED <<callerVars, total, queue, local, task, wpush, werrs, speer, sretry,
                   ssnap, counter, chan, cpc, all_errors, pushed, expanded>>

\* self.map.lock() of MemStorage::set, for the task itself.
StoreTaskLock(w) ==
    /\ wpc[w] = "store_task"
    /\ LockFree
    /\ lock' = w
    /\ wpc' = [wpc EXCEPT ![w] = "store_task_set"]
    /\ UNCHANGED <<callerVars, total, storage, queue, local, task, wpush, wfiles, werrs,
                   speer, sretry, ssnap, counter, chan, cpc, all_errors, pushed,
                   expanded>>

StoreTaskSet(w) ==
    /\ wpc[w] = "store_task_set"
    /\ storage' = Some(MapInsert(storage[1], GetFormatPath(task[w][1]), task[w][1]))
    /\ task' = [task EXCEPT ![w] = None]
    /\ lock' = Release(w)
    /\ wpc' = [wpc EXCEPT ![w] = "dec"]
    /\ UNCHANGED <<callerVars, total, queue, local, wpush, wfiles, werrs, speer, sretry,
                   ssnap, counter, chan, cpc, all_errors, pushed, expanded>>

\* Mutant: the decrement is left out.
FetchSubForgotten(c) == c

\* AtomicIsize::fetch_add(-1): the value it leaves.
FetchSub(c) == c - 1

\* counter.fetch_add(-1); the task and what is left of it are dropped.
Dec(w) ==
    /\ wpc[w] = "dec"
    /\ counter' = FetchSub(counter)
    /\ task' = [task EXCEPT ![w] = None]
    /\ wfiles' = [wfiles EXCEPT ![w] = <<>>]
    /\ wpc' = [wpc EXCEPT ![w] = "chk_counter"]
    /\ UNCHANGED <<callerVars, total, storage, lock, queue, local, wpush, werrs, speer,
                   sretry, ssnap, chan, cpc, all_errors, pushed, expanded>>

\* The exit test reads the counter, the Injector and the local deque one
\* after the other.
\* Mutant: the exit test wants a negative counter.
ExitTestCounterStrict(c) == c < 0

ExitTestCounter(c) == c <= 0

ChkCounter(w) ==
    /\ wpc[w] = "chk_counter"
    /\ wpc' = [wpc EXCEPT ![w] = IF ExitTestCounter(counter) THEN "chk_queue" ELSE "find"]
    /\ UNCHANGED <<callerVars, total, storage, lock, queue, local, task, wpush, wfiles,
                   werrs, speer, sretry, ssnap, counter, chan, cpc, all_errors,
                   pushed, expanded>>

\* Mutant: the exit test does not look at the Injector.
ExitTestQueueSkipped(q) == TRUE

ExitTestQueue(q) == q = <<>>

ChkQueue(w) ==
    /\ wpc[w] = "chk_queue"
    /\ wpc' = [wpc EXCEPT ![w] = IF ExitTestQueue(queue) THEN "chk_local" ELSE "find"]
    /\ UNCHANGED <<callerVars, total, storage, lock, queue, local, task, wpush, wfiles,
                   werrs, speer, sretry, ssnap, counter, chan, cpc, all_errors,
                   pushed, expanded>>

\* Mutant: the exit test does not look at the worker's own deque.
ExitTestLocalSkipped(l) == TRUE

ExitTestLocal(l) == l = <<>>

ChkLocal(w) ==
    /\ wpc[w] = "chk_local"
    /\ wpc' = [wpc EXCEPT ![w] = IF ExitTestLocal(local[w]) THEN "exited" ELSE "find"]
    /\ UNCHANGED <<callerVars, total, storage, lock, queue, local, task, wpush, wfiles,
                   werrs, speer, sretry, ssnap, counter, chan, cpc, all_errors,
                   pushed, expanded>>

\* ----------------------------------------------------- wrapper queries
crawlVars == <<storage, lock, queue, local, wpc, task, wpush, wfiles, werrs,
               speer, sretry, ssnap, counter, chan, cpc, all_errors, pushed,
               expanded>>

\* EntryWrapper::count_entries
CountEntries ==
    /\ mpc = "idle"
    /\ qres' = [op |-> "count_entries", val |-> WrapperCountEntries(entry, storage)]
    /\ storage' = StoreAfterWalk(entry, storage)
    /\ UNCHANGED <<clientVars, lastNav, fs, ncpu, mode, total, entry, mpc, lastCall,
                   loads, ret, lock, queue, local, wpc, task, wpush, wfiles, werrs,
                   speer, sretry, ssnap, counter, chan, cpc, all_errors, pushed,
                   expanded>>

\* EntryWrapper::calculate_size
CalculateSize ==
    /\ mpc = "idle"
    /\ qres' = [op |-> "calculate_size", val |-> WrapperCalculateSize(entry, storage)]
    /\ storage' = StoreAfterWalk(entry, storage)
    /\ UNCHANGED <<clientVars, lastNav, fs, ncpu, mode, total, entry, mpc, lastCall,
                   loads, ret, lock, queue, local, wpc, task, wpush, wfiles, werrs,
                   speer, sretry, ssnap, counter, chan, cpc, all_errors, pushed,
                   expanded>>

\* Mutant: the entry is taken out of the Store, as pull_out does.
StoreAfterPullOut(st, key) ==
    IF st = None THEN None ELSE Some(MapRemove(st[1], key))

\* The Store after MemStorage::get: get(key).cloned() leaves the map alone.
StoreAfterGet(st, key) == st

\* EntryWrapper::replace_from_storage
ReplaceFromStorage(key) ==
    /\ mpc = "idle"
    /\ entry' = IF storage # None /\ MapGet(storage[1], key) # None
                  THEN MapGet(storage[1], key)[1]
                  ELSE entry
    /\ storage' = StoreAfterGet(storage, key)
    /\ lastNav' = [called |-> TRUE, key |-> key, parent |-> GetParent(entry),
                   children |-> GetChildren(entry)]
    /\ qres' = NoResult
    /\ UNCHANGED <<clientVars, fs, ncpu, mode, total, mpc, lastCall, loads, ret, lock,
                   queue, local, wpc, task, wpush, wfiles, werrs, speer, sretry,
                   ssnap, counter, chan, cpc, all_errors, pushed, expanded>>

\* ----------------------------------------------------- parallel queries
QueryName(m) == IF m = "count" THEN "count_entries_multi" ELSE "calculate_size_multi"

\* Entry::get_size
EntryGetSize(e) == e.size

\* Mutant: a Directory adds nothing to total_size.
FetchAddFilesOnly(m, e) == IF m = "count" THEN 1 ELSE IF IsFile(e) THEN EntryGetSize(e) ELSE 0

\* What one resolved entry adds to total_entries / total_size.
FetchAdd(m, e) == IF m = "count" THEN 1 ELSE EntryGetSize(e)

\* count_entries_multi / calculate_size_all_children_multi without a Store:
\* the early return.
MultiNoStorage(m) ==
    /\ mpc = "idle"
    /\ IsDir(entry)
    /\ storage = None
    /\ qres' = [op |-> QueryName(m),
                val |-> IF m = "count" THEN Len(entry.children) ELSE 0]
    /\ UNCHANGED <<clientVars, lastNav, fs, ncpu, mode, total, entry, mpc, lastCall, loads, ret, crawlVars>>

\* count_entries_multi / calculate_size_all_children_multi with a Store, up
\* to the spawn of the workers: a new scheduler, the keys of the children
\* pushed on the Injector, both atomics at 0.
MultiStart(m) ==
    /\ mpc = "idle"
    /\ IsDir(entry)
    /\ storage # None
    /\ mode' = m
    /\ queue' = KeyTasks(entry.children)
    /\ pushed' = CountPushes(ZeroCount, KeyTasks(entry.children))
    /\ expanded' = ZeroCount
    /\ counter' = 0
    /\ total' = 0
    /\ local' = NoWorkers
    /\ wpc' = [w \in Workers |-> "find"]
    /\ task' = [w \in Workers |-> None]
    /\ wpush' = NoWorkers
    /\ wfiles' = NoWorkers
    /\ werrs' = NoWorkers
    /\ speer' = [w \in Workers |-> 1]
    /\ sretry' = [w \in Workers |-> FALSE]
    /\ ssnap' = NoWorkers
    /\ mpc' = "multi_join"
    /\ UNCHANGED <<clientVars, lastNav, qres, fs, ncpu, entry, storage, lock, lastCall, loads, chan, cpc,
                   all_errors, ret>>

\* The scope ends once every worker has ended; the atomic total is returned.
MultiReturn ==
    /\ mpc = "multi_join"
    /\ AllWorkersExited
    /\ qres' = [op |-> QueryName(mode), val |-> total]
    /\ mpc' = "idle"
    /\ UNCHANGED <<clientVars, lastNav, fs, ncpu, mode, total, entry, lastCall, loads, ret, crawlVars>>

\* self.map.lock() of MemStorage::get, for the key the worker holds.
GetLock(w) ==
    /\ wpc[w] = "get"
    /\ LockFree
    /\ lock' = w
    /\ wpc' = [wpc EXCEPT ![w] = "get_read"]
    /\ UNCHANGED <<callerVars, total, storage, queue, local, task, wpush, wfiles, werrs,
                   speer, sretry, ssnap, counter, chan, cpc, all_errors, pushed,
                   expanded>>

\* get(key).cloned() under the lock, which the end of get releases; a
\* resolved entry is added to the total and, if a Directory, its children
\* keys are the next to push.
GetRead(w) ==
    /\ wpc[w] = "get_read"
    /\ LET got == MapGet(storage[1], TaskId(task[w][1]))
           keys == IF got # None /\ IsDir(got[1]) THEN KeyTasks(got[1].children) ELSE <<>>
       IN  /\ total' = IF got = None THEN total ELSE total + FetchAdd(mode, got[1])
           /\ wpush' = [wpush EXCEPT ![w] = keys]
           /\ wpc' = [wpc EXCEPT ![w] = AfterExpand(<<>>, keys, <<>>)]
    /\ expanded' = [expanded EXCEPT ![TaskId(task[w][1])] = @ + 1]
    /\ lock' = Release(w)
    /\ UNCHANGED <<callerVars, storage, queue, local, task, wfiles, werrs, speer,
                   sretry, ssnap, counter, chan, cpc, all_errors, pushed>>

\* ------------------------------------------------- calls on the Store
\* The keys and values of the calls the client threads make.
StoreKeys == {1, 2}

Values == {"a", "b"}

NoValue == "-"

\* The () that set and remove return.
Unit == "()"

IdleClient ==
    [pc |-> "idle", op |-> "none", key |-> 0, val |-> NoValue, found |-> None,
     ret |-> Unit, exp |-> Unit]

NoClients == [c \in Workers |-> IdleClient]

NoCall ==
    [by |-> 0, op |-> "none", key |-> 0, val |-> NoValue, ret |-> Unit,
     before |-> EmptyMap, after |-> EmptyMap, overlapped |-> FALSE]

\* Another thread is inside a Store call while thread c is.
Overlapped(c) == \E d \in Workers \ {c} : client[d].pc # "idle"

\* What a call returns, and the map it leaves, when it runs alone on map m.
AloneReturn(m, op, k) ==
    IF op \in {"get", "pull_out"}
      THEN (IF k \in DOMAIN m THEN Some(m[k]) ELSE None)
      ELSE Unit

AloneAfter(m, op, k, v) ==
    CASE op = "set" -> [x \in (DOMAIN m) \cup {k} |-> IF x = k THEN v ELSE m[x]]
      [] op = "get" -> m
      [] OTHER -> [x \in (DOMAIN m) \ {k} |-> m[x]]

\* Thread c calls set, get, pull_out or remove.
Invoke(c, o, k, v) ==
    /\ storage # None
    /\ client[c].pc = "idle"
    /\ ops < MaxOps
    /\ ops' = ops + 1
    /\ client' = [client EXCEPT ![c] =
                    [pc |-> "lock", op |-> o, key |-> k, val |-> v, found |-> None,
                     ret |-> Unit, exp |-> Unit]]
    /\ UNCHANGED <<lastNav, fs, ncpu, mode, total, entry, mpc, lastCall, loads, ret, qres,
                   crawlVars, abs, hist, nset, npulled>>

\* self.map.lock().unwrap()
Acquire(c) ==
    /\ client[c].pc = "lock"
    /\ LockFree
    /\ lock' = c
    /\ client' = [client EXCEPT ![c].pc = "find"]
    /\ UNCHANGED <<lastNav, fs, ncpu, mode, total, entry, mpc, lastCall, loads, ret, qres,
                   storage, queue, local, wpc, task, wpush, wfiles, werrs, speer,
                   sretry, ssnap, counter, chan, cpc, all_errors, pushed, expanded,
                   abs, hist, ops, nset, npulled>>

\* The HashMap call looks the key up; get takes effect here.
Lookup(c) ==
    /\ client[c].pc = "find"
    /\ LET cl == client[c]
           found == MapGet(storage[1], cl.key)
       IN  /\ client' = [client EXCEPT ![c].pc = "apply", ![c].found = found,
                                       ![c].exp = IF cl.op = "get"
                                                    THEN AloneReturn(abs, "get", cl.key)
                                                    ELSE Unit]
           /\ hist' = IF cl.op = "get"
                        THEN <<hist[2],
                               [by |-> c, op |-> "get", key |-> cl.key, val |-> NoValue,
                                ret |-> found, before |-> storage[1],
                                after |-> storage[1], overlapped |-> Overlapped(c)]>>
                        ELSE hist
    /\ UNCHANGED <<lastNav, fs, ncpu, mode, total, entry, mpc, lastCall, loads, ret, qres,
                   crawlVars, abs, ops, nset, npulled>>

\* The HashMap call inserts or removes and returns, the guard is dropped
\* and the Store call returns; set, pull_out and remove take effect here.
Apply(c) ==
    /\ client[c].pc = "apply"
    /\ LET cl == client[c]
           after == CASE cl.op = "set" -> MapInsert(storage[1], cl.key, cl.val)
                      [] cl.op = "get" -> storage[1]
                      [] OTHER -> MapRemove(storage[1], cl.key)
           result == IF cl.op \in {"get", "pull_out"} THEN cl.found ELSE Unit
       IN  /\ storage' = Some(after)
           /\ client' = [client EXCEPT ![c].pc = "idle", ![c].ret = result,
                                       ![c].exp = IF cl.op = "get"
                                                    THEN cl.exp
                                                    ELSE AloneReturn(abs, cl.op, cl.key)]
           /\ abs' = IF cl.op = "get" THEN abs ELSE AloneAfter(abs, cl.op, cl.key, cl.val)
           /\ hist' = IF cl.op = "get"
                        THEN hist
                        ELSE <<hist[2],
                               [by |-> c, op |-> cl.op, key |-> cl.key, val |-> cl.val,
                                ret |-> result, before |-> storage[1],
                                after |-> after, overlapped |-> Overlapped(c)]>>
           /\ nset' = IF cl.op = "set" THEN [nset EXCEPT ![cl.key] = @ + 1] ELSE nset
           /\ npulled' = IF cl.op = "pull_out" /\ cl.found # None
                           THEN [npulled EXCEPT ![cl.key] = @ + 1]
                           ELSE npulled
    /\ lock' = Release(c)
    /\ UNCHANGED <<lastNav, fs, ncpu, mode, total, entry, mpc, lastCall, loads, ret, qres,
                   queue, local, wpc, task, wpush, wfiles, werrs, speer, sretry,
                   ssnap, counter, chan, cpc, all_errors, pushed, expanded, ops>>

\* ------------------------------------------------------ specification
\* EntryWrapper::new / new_with_memstorage on the root of some tree.
Init ==
    /\ fs \in Trees
    /\ ncpu \in 1 .. MaxWorkers
    /\ entry = EntryNew(Root)
    /\ storage \in {None, Some(EmptyMap)}
    /\ lock = 0
    /\ mpc = "idle"
    /\ lastCall = [kind |-> "none", key |-> Root, children |-> 0, outcome |-> "none"]
    /\ loads = 0
    /\ queue = <<>>
    /\ local = NoWorkers
    /\ wpc = [w \in Workers |-> "exited"]
    /\ task = NoWorkers
    /\ wpush = NoWorkers
    /\ wfiles = NoWorkers
    /\ werrs = NoWorkers
    /\ speer = [w \in Workers |-> 1]
    /\ sretry = [w \in Workers |-> FALSE]
    /\ ssnap = NoWorkers
    /\ mode = "crawl"
    /\ total = 0
    /\ counter = 0
    /\ chan = <<>>
    /\ cpc = "done"
    /\ all_errors = <<>>
    /\ ret = None
    /\ qres = NoResult
    /\ pushed = ZeroCount
    /\ expanded = ZeroCount
    /\ client = NoClients
    /\ abs = EmptyMap
    /\ hist = <<NoCall, NoCall>>
    /\ ops = 0
    /\ nset = [k \in StoreKeys |-> 0]
    /\ npulled = [k \in StoreKeys |-> 0]
    /\ lastNav = NoNav

Next ==
    \/ LoadFile
    \/ LoadPanic
    \/ LoadStart
    \/ JoinWorkers
    \/ LoadReturn
    \/ CollectorRecv
    \/ \E w \in Workers : FindLocal(w)
    \/ \E w \in Workers : StealGlobal(w)
    \/ \E w \in Workers : CasGlobal(w)
    \/ \E w \in Workers : StealPeer(w)
    \/ \E w \in Workers : CasPeer(w)
    \/ \E w \in Workers : Inc(w)
    \/ \E w \in Workers : Expand(w)
    \/ \E w \in Workers : SendError(w)
    \/ \E w \in Workers : PushChild(w)
    \/ \E w \in Workers : StoreFileLock(w)
    \/ \E w \in Workers : StoreFileSet(w)
    \/ \E w \in Workers : StoreTaskLock(w)
    \/ \E w \in Workers : StoreTaskSet(w)
    \/ \E w \in Workers : Dec(w)
    \/ \E w \in Workers : ChkCounter(w)
    \/ \E w \in Workers : ChkQueue(w)
    \/ \E w \in Workers : ChkLocal(w)
    \/ CountEntries
    \/ CalculateSize
    \/ \E key \in Keys : ReplaceFromStorage(key)

Spec == Init /\ [][Next]_vars

\* One step of worker w.
WorkerStep(w) ==
    /\ w \in Workers
    /\ \/ FindLocal(w) \/ StealGlobal(w) \/ CasGlobal(w) \/ StealPeer(w) \/ CasPeer(w)
       \/ Inc(w) \/ Expand(w) \/ SendError(w) \/ PushChild(w)
       \/ StoreFileLock(w) \/ StoreFileSet(w) \/ StoreTaskLock(w) \/ StoreTaskSet(w)
       \/ Dec(w) \/ ChkCounter(w) \/ ChkQueue(w) \/ ChkLocal(w)

\* The load_all_children calls alone, every thread of a call scheduled
\* fairly: a thread that can take a step eventually takes one.
CrawlNext ==
    \/ LoadFile
    \/ LoadPanic
    \/ LoadStart
    \/ JoinWorkers
    \/ LoadReturn
    \/ CollectorRecv
    \/ \E w \in Workers : WorkerStep(w)

FairSpec ==
    /\ Init
    /\ [][CrawlNext]_vars
    /\ \A w \in 1 .. MaxWorkers : WF_vars(WorkerStep(w))
    /\ WF_vars(CollectorRecv)
    /\ WF_vars(JoinWorkers)
    /\ WF_vars(LoadReturn)

\* What load_all_children leaves in the Store: the Directories are listed
\* one after the other, each stored with the keys of its children, its File
\* children stored beside it.
RECURSIVE CrawlStore(_, _)
CrawlStore(todo, m) ==
    IF todo = <<>>
      THEN m
      ELSE LET got == GetLoadChildren(Head(todo))
               done == CloneChildrenToCurrent(Head(todo), got.entries)
           IN  CrawlStore(Tail(todo) \o DirsToPush(got.entries),
                          MapInsert(InsertAll(m, FileEntries(got.entries)),
                                    GetFormatPath(done), done))

\* The root entry after its load_all_children.
CrawledRoot ==
    CloneChildrenToCurrent(EntryNew(Root), GetLoadChildren(EntryNew(Root)).entries)

\* The Store after load_all_children on the root; the root itself is not
\* stored.
CrawledStore ==
    LET got == GetLoadChildren(EntryNew(Root))
    IN  CrawlStore(DirsToPush(got.entries),
                   InsertAll(EmptyMap, FileEntries(got.entries)))

\* The errors load_all_children on the root returns when the Directories
\* are listed one after the other.
RECURSIVE CrawlErrors(_, _)
CrawlErrors(todo, errors) ==
    IF todo = <<>>
      THEN errors
      ELSE LET got == GetLoadChildren(Head(todo))
           IN  CrawlErrors(Tail(todo) \o DirsToPush(got.entries),
                           errors \o Reverse(got.errors))

CrawledErrors ==
    LET got == GetLoadChildren(EntryNew(Root))
    IN  CrawlErrors(DirsToPush(got.entries), got.errors)

\* The Directories a crawled wrapper can display: the root, or a stored
\* Directory after replace_from_storage.
Displayed ==
    {CrawledRoot} \cup {CrawledStore[k] : k \in {x \in DOMAIN CrawledStore :
                                                   IsDir(CrawledStore[x])}}

\* A wrapper whose load_all_children on a Directory root has returned.
QueryInit ==
    /\ fs \in {f \in Trees : f.root = "dir" \/ f.root = "nolist"}
    /\ ncpu \in 1 .. MaxWorkers
    /\ storage \in {None, Some(CrawledStore)}
    /\ entry \in IF storage = None THEN {CrawledRoot} ELSE Displayed
    /\ lock = 0
    /\ mpc = "idle"
    /\ lastCall = [kind |-> "Dir", key |-> Root, children |-> 0, outcome |-> "returned"]
    /\ loads = 1
    /\ queue = <<>>
    /\ local = NoWorkers
    /\ wpc = [w \in Workers |-> "exited"]
    /\ task = NoWorkers
    /\ wpush = NoWorkers
    /\ wfiles = NoWorkers
    /\ werrs = NoWorkers
    /\ speer = [w \in Workers |-> 1]
    /\ sretry = [w \in Workers |-> FALSE]
    /\ ssnap = NoWorkers
    /\ mode = "crawl"
    /\ total = 0
    /\ counter = 0
    /\ chan = <<>>
    /\ cpc = "done"
    /\ all_errors = CrawledErrors
    /\ ret = Some(CrawledErrors)
    /\ qres = NoResult
    /\ pushed = ZeroCount
    /\ expanded = ZeroCount
    /\ client = NoClients
    /\ abs = EmptyMap
    /\ hist = <<NoCall, NoCall>>
    /\ ops = 0
    /\ nset = [k \in StoreKeys |-> 0]
    /\ npulled = [k \in StoreKeys |-> 0]
    /\ lastNav = NoNav

\* One step of a worker of a parallel query.
QueryWorkerStep(w) ==
    /\ w \in Workers
    /\ \/ FindLocal(w) \/ StealGlobal(w) \/ CasGlobal(w) \/ StealPeer(w) \/ CasPeer(w)
       \/ Inc(w) \/ GetLock(w) \/ GetRead(w) \/ PushChild(w)
       \/ Dec(w) \/ ChkCounter(w) \/ ChkQueue(w) \/ ChkLocal(w)

\* The aggregate queries, sequential and parallel, on a crawled wrapper.
QueryNext ==
    \/ CountEntries
    \/ CalculateSize
    \/ \E m \in {"count", "size"} : MultiNoStorage(m)
    \/ \E m \in {"count", "size"} : MultiStart(m)
    \/ MultiReturn
    \/ \E w \in Workers : FindLocal(w)
    \/ \E w \in Workers : StealGlobal(w)
    \/ \E w \in Workers : CasGlobal(w)
    \/ \E w \in Workers : StealPeer(w)
    \/ \E w \in Workers : CasPeer(w)
    \/ \E w \in Workers : Inc(w)
    \/ \E w \in Workers : GetLock(w)
    \/ \E w \in Workers : GetRead(w)
    \/ \E w \in Workers : PushChild(w)
    \/ \E w \in Workers : Dec(w)
    \/ \E w \in Workers : ChkCounter(w)
    \/ \E w \in Workers : ChkQueue(w)
    \/ \E w \in Workers : ChkLocal(w)

QuerySpec == QueryInit /\ [][QueryNext]_vars

\* The queries with every thread scheduled fairly.
FairQuerySpec ==
    /\ QueryInit
    /\ [][QueryNext]_vars
    /\ \A w \in 1 .. MaxWorkers : WF_vars(QueryWorkerStep(w))
    /\ WF_vars(MultiReturn)

\* The parallel queries alone, on a crawled wrapper.
MultiNext ==
    \/ \E m \in {"count", "size"} : MultiNoStorage(m)
    \/ \E m \in {"count", "size"} : MultiStart(m)
    \/ MultiReturn
    \/ \E w \in Workers : FindLocal(w)
    \/ \E w \in Workers : StealGlobal(w)
    \/ \E w \in Workers : CasGlobal(w)
    \/ \E w \in Workers : StealPeer(w)
    \/ \E w \in Workers : CasPeer(w)
    \/ \E w \in Workers : Inc(w)
    \/ \E w \in Workers : GetLock(w)
    \/ \E w \in Workers : GetRead(w)
    \/ \E w \in Workers : PushChild(w)
    \/ \E w \in Workers : Dec(w)
    \/ \E w \in Workers : ChkCounter(w)
    \/ \E w \in Workers : ChkQueue(w)
    \/ \E w \in Workers : ChkLocal(w)

\* The parallel queries with every thread scheduled fairly: the scope joins
\* every worker it spawned.
FairMultiSpec ==
    /\ QueryInit
    /\ [][MultiNext]_vars
    /\ \A w \in 1 .. MaxWorkers : WF_vars(QueryWorkerStep(w))
    /\ WF_vars(MultiReturn)

\* The Stores a crawl leaves with one key taken out.
PrunedStores ==
    {[k \in (DOMAIN CrawledStore) \ {x} |-> CrawledStore[k]] : x \in DOMAIN CrawledStore}

\* The Directories a wrapper over Store m can display.
DisplayedOf(m) ==
    {CrawledRoot} \cup {m[k] : k \in {x \in DOMAIN m : IsDir(m[x])}}

\* A crawled wrapper handed a Store that lacks a key of some children list.
PrunedQueryInit ==
    /\ fs \in {f \in Trees : f.root = "dir" \/ f.root = "nolist"}
    /\ ncpu \in 1 .. MaxWorkers
    /\ storage \in {Some(m) : m \in PrunedStores}
    /\ entry \in DisplayedOf(storage[1])
    /\ lock = 0
    /\ mpc = "idle"
    /\ lastCall = [kind |-> "Dir", key |-> Root, children |-> 0, outcome |-> "returned"]
    /\ loads = 1
    /\ queue = <<>>
    /\ local = NoWorkers
    /\ wpc = [w \in Workers |-> "exited"]
    /\ task = NoWorkers
    /\ wpush = NoWorkers
    /\ wfiles = NoWorkers
    /\ werrs = NoWorkers
    /\ speer = [w \in Workers |-> 1]
    /\ sretry = [w \in Workers |-> FALSE]
    /\ ssnap = NoWorkers
    /\ mode = "crawl"
    /\ total = 0
    /\ counter = 0
    /\ chan = <<>>
    /\ cpc = "done"
    /\ all_errors = CrawledErrors
    /\ ret = Some(CrawledErrors)
    /\ qres = NoResult
    /\ pushed = ZeroCount
    /\ expanded = ZeroCount
    /\ client = NoClients
    /\ abs = EmptyMap
    /\ hist = <<NoCall, NoCall>>
    /\ ops = 0
    /\ nset = [k \in StoreKeys |-> 0]
    /\ npulled = [k \in StoreKeys |-> 0]
    /\ lastNav = NoNav

\* The aggregate queries, sequential and parallel, over such a Store.
PrunedQueryNext ==
    \/ CountEntries
    \/ CalculateSize
    \/ \E m \in {"count", "size"} : MultiStart(m)
    \/ MultiReturn
    \/ \E w \in Workers : FindLocal(w)
    \/ \E w \in Workers : StealGlobal(w)
    \/ \E w \in Workers : CasGlobal(w)
    \/ \E w \in Workers : StealPeer(w)
    \/ \E w \in Workers : CasPeer(w)
    \/ \E w \in Workers : Inc(w)
    \/ \E w \in Workers : GetLock(w)
    \/ \E w \in Workers : GetRead(w)
    \/ \E w \in Workers : PushChild(w)
    \/ \E w \in Workers : Dec(w)
    \/ \E w \in Workers : ChkCounter(w)
    \/ \E w \in Workers : ChkQueue(w)
    \/ \E w \in Workers : ChkLocal(w)

PrunedQuerySpec == PrunedQueryInit /\ [][PrunedQueryNext]_vars

\* Every map from some of the keys to values.
Maps == UNION {[D -> Values] : D \in SUBSET StoreKeys}

\* A MemStorage with any contents, shared by the client threads.
StoreInit ==
    /\ fs = [root |-> "dir", nodes |-> <<>>]
    /\ ncpu \in 1 .. MaxWorkers
    /\ entry = EntryNew(Root)
    /\ storage \in {Some(m) : m \in Maps}
    /\ lock = 0
    /\ mpc = "idle"
    /\ lastCall = [kind |-> "none", key |-> Root, children |-> 0, outcome |-> "none"]
    /\ loads = 0
    /\ queue = <<>>
    /\ local = NoWorkers
    /\ wpc = [w \in Workers |-> "exited"]
    /\ task = NoWorkers
    /\ wpush = NoWorkers
    /\ wfiles = NoWorkers
    /\ werrs = NoWorkers
    /\ speer = [w \in Workers |-> 1]
    /\ sretry = [w \in Workers |-> FALSE]
    /\ ssnap = NoWorkers
    /\ mode = "crawl"
    /\ total = 0
    /\ counter = 0
    /\ chan = <<>>
    /\ cpc = "done"
    /\ all_errors = <<>>
    /\ ret = None
    /\ qres = NoResult
    /\ pushed = ZeroCount
    /\ expanded = ZeroCount
    /\ client = NoClients
    /\ abs = storage[1]
    /\ hist = <<NoCall, NoCall>>
    /\ ops = 0
    /\ nset = [k \in StoreKeys |-> IF k \in DOMAIN storage[1] THEN 1 ELSE 0]
    /\ npulled = [k \in StoreKeys |-> 0]
    /\ lastNav = NoNav

StoreNext ==
    \/ \E c \in Workers, k \in StoreKeys, v \in Values : Invoke(c, "set", k, v)
    \/ \E c \in Workers, k \in StoreKeys : Invoke(c, "get", k, NoValue)
    \/ \E c \in Workers, k \in StoreKeys : Invoke(c, "pull_out", k, NoValue)
    \/ \E c \in Workers, k \in StoreKeys : Invoke(c, "remove", k, NoValue)
    \/ \E c \in Workers : Acquire(c)
    \/ \E c \in Workers : Lookup(c)
    \/ \E c \in Workers : Apply(c)

StoreSpec == StoreInit /\ [][StoreNext]_vars

\* ======================================================== properties
\* A load_all_children call on a Directory has returned.
CrawlReturned ==
    mpc = "idle" /\ lastCall.kind = "Dir" /\ lastCall.outcome = "returned"

RECURSIVE Occurrences(_, _)
Occurrences(k, tasks) ==
    IF tasks = <<>>
      THEN 0
      ELSE (IF TaskId(Head(tasks)) = k THEN 1 ELSE 0) + Occurrences(k, Tail(tasks))

RECURSIVE SumOver(_, _)
SumOver(f, S) ==
    IF S = {}
      THEN 0
      ELSE LET x == CHOOSE y \in S : TRUE IN f[x] + SumOver(f, S \ {x})

\* Copies of Directory task k that are queued, or held by a worker that got
\* them from find_task and has not expanded them yet.
Waiting(k) ==
    Occurrences(k, queue)
      + SumOver([w \in Workers |-> Occurrences(k, local[w])], Workers)
      + Cardinality({w \in Workers : /\ wpc[w] \in {"inc", "expand"}
                                     /\ task[w] # None
                                     /\ TaskId(task[w][1]) = k})

\* C1: with a Store attached, every Directory pushed on the scheduler is
\* expanded exactly once: at every moment each pushed task is either still
\* waiting (queued or just picked up) or has been expanded once, never twice,
\* and once every worker has left its loop no pushed task is left unexpanded,
\* so N pushes give N expansions.
C1_EveryPushedDirectoryExpandedOnce ==
    storage # None =>
      /\ \A k \in Keys : expanded[k] <= 1
      /\ \A k \in Keys : pushed[k] = expanded[k] + Waiting(k)
      /\ AllWorkersExited =>
           /\ \A k \in Keys : expanded[k] = pushed[k]
           /\ SumOver(expanded, Keys) = SumOver(pushed, Keys)

\* A crawl by two workers has returned after three Directory tasks were
\* pushed and expanded.
C1_Witness ==
    /\ CrawlReturned
    /\ storage # None
    /\ ncpu = 2
    /\ SumOver(pushed, Keys) = 3
    /\ SumOver(expanded, Keys) = 3

\* The keys of a sequence of entries.
KeySet(entries) == {GetFormatPath(entries[i]) : i \in 1 .. Len(entries)}

\* The keys a one-thread sequential crawl of the tree finds.
SequentialKeys == DOMAIN CrawledStore

\* C2: when load_all_children returns, the keys in the Store are the keys a
\* one-thread sequential crawl of the tree finds, whatever the number of
\* workers and however they interleaved; so are the entries stored under
\* them and the root entry.
C2_StoreKeysAreSequentialKeys ==
    (CrawlReturned /\ storage # None) =>
      /\ DOMAIN storage[1] = SequentialKeys
      /\ storage[1] = CrawledStore
      /\ GetFormatPath(entry) = Root => entry = CrawledRoot

\* A two-worker crawl has returned with three keys in the Store, one of them
\* found two levels below the root.
C2_Witness ==
    /\ CrawlReturned
    /\ storage # None
    /\ ncpu = 2
    /\ Cardinality(DOMAIN storage[1]) = 3
    /\ \E k \in DOMAIN storage[1] :
         storage[1][k].parent # None /\ storage[1][k].parent # Some(Root)

\* The wrapper still displays the root it was created on, its
\* load_all_children has returned.
RootCrawled == CrawlReturned /\ GetFormatPath(entry) = Root

\* Objects of the tree of which the crawl made an Entry.
Captured == {i \in Nodes(fs) : fs.nodes[i].st # "bad"}

CapturedFiles == {i \in Nodes(fs) : fs.nodes[i].st = "file"}

CapturedDirs == {i \in Nodes(fs) : fs.nodes[i].st \in {"dir", "nolist"}}

KeySetOfErrors(errors) == {errors[i] : i \in 1 .. Len(errors)}

RECURSIVE IsBelow(_, _)
IsBelow(i, k) ==
    /\ i # Root
    /\ \/ fs.nodes[i].parent = k
       \/ IsBelow(fs.nodes[i].parent, k)

\* The failures a crawl started on Directory k meets.
FailuresBelow(k) ==
    {ReadDirError(i) : i \in {j \in Nodes(fs) \cup {Root} :
                                /\ j = k \/ IsBelow(j, k)
                                /\ NodeSt(j) = "nolist"}}
      \cup {CaptureError(i) : i \in {j \in Nodes(fs) :
                                       IsBelow(j, k) /\ NodeSt(j) = "bad"}}

\* C6: the list load_all_children returns holds every failure of the crawl
\* (unlistable Directory, child without Entry) exactly once and nothing
\* else; the collector ends only after every worker has left its loop, with
\* nothing left in the channel, and no worker's send fails.
C6_ReturnsExactlyTheErrors ==
    /\ CrawlReturned =>
         /\ ret # None
         /\ KeySetOfErrors(ret[1]) = FailuresBelow(lastCall.key)
         /\ Len(ret[1]) = Cardinality(FailuresBelow(lastCall.key))
    /\ cpc = "done" => (AllWorkersExited /\ chan = <<>>)
    /\ \A w \in Workers : wpc[w] # "panicked"

\* A two-worker crawl returned three errors, one of them for a Directory
\* that a worker could not list.
C6_Witness ==
    /\ CrawlReturned
    /\ ncpu = 2
    /\ ret # None
    /\ Len(ret[1]) = 3
    /\ \E i \in 1 .. 3 : ret[1][i].kind = "read_dir" /\ ret[1][i].key # Root

\* C7: failures do not stop the crawl of the rest: once load_all_children
\* on the root has returned, every object of which an Entry could be made is
\* in the Store.  With one unlistable sub-directory beside one file, one
\* error is returned and the file counts for one entry and for its size.
C7_FailuresDoNotHideOthers ==
    (RootCrawled /\ storage # None /\ loads = 1) =>
      /\ Captured \subseteq DOMAIN storage[1]
      /\ (/\ Len(fs.nodes) = 2
          /\ \A i \in Nodes(fs) : fs.nodes[i].parent = Root
          /\ \E d, f \in Nodes(fs) : fs.nodes[d].st = "nolist" /\ fs.nodes[f].st = "file")
         => /\ Len(ret[1]) = 1
            /\ \A f \in CapturedFiles :
                 /\ WrapperCountEntries(entry, storage)
                      = WrapperCountEntries(entry, Some(MapRemove(storage[1], f))) + 1
                 /\ WrapperCalculateSize(entry, storage)
                      = WrapperCalculateSize(entry, Some(MapRemove(storage[1], f)))
                          + StatSize(f)

\* A crawl returned from a root that holds an unlistable sub-directory, a
\* child without Entry and, after them in the listing, a file.
C7_Witness ==
    /\ RootCrawled
    /\ storage # None
    /\ loads = 1
    /\ Len(fs.nodes) = 3
    /\ fs.nodes[1].st = "nolist"
    /\ fs.nodes[2].st = "bad"
    /\ fs.nodes[3].st = "file"
    /\ \A i \in Nodes(fs) : fs.nodes[i].parent = Root
    /\ 3 \in DOMAIN storage[1]

\* C8 as stated: a second load_all_children on the same wrapper always
\* panics, whatever the first call found.
C8_SecondLoadAlwaysPanics ==
    (loads >= 2 /\ GetFormatPath(entry) = Root) => lastCall.outcome = "panic"

\* C8 as amended: a second load_all_children on the wrapper panics exactly
\* when the first call left the root Directory with at least one child;
\* on a root without children (a File, an empty or unlistable Directory, one
\* whose every child failed) it does not panic and runs again.
C8_SecondLoadPanicsIffChildren ==
    (loads >= 2 /\ GetFormatPath(entry) = Root) =>
      /\ lastCall.outcome = "panic" <=> (IsDir(entry) /\ Len(entry.children) # 0)
      /\ lastCall.outcome = "panic" <=>
           (\E i \in Nodes(fs) : fs.nodes[i].parent = Root /\ fs.nodes[i].st # "bad")

\* The second call on a root with children has panicked.
C8_Witness ==
    /\ loads = 2
    /\ GetFormatPath(entry) = Root
    /\ mpc = "panicked"
    /\ lastCall.outcome = "panic"
    /\ Len(entry.children) = 2

\* C5: under fair scheduling every crawl that was started returns: every
\* worker leaves its loop, the collector gets the end marker and ends, and
\* the caller gets its result.
C5_LoadTerminates ==
    (mpc = "join") ~> (mpc = "idle" /\ AllWorkersExited /\ cpc = "done")

\* A two-worker crawl that expanded three Directories has returned.
C5_Witness ==
    /\ CrawlReturned
    /\ ncpu = 2
    /\ cpc = "done"
    /\ AllWorkersExited
    /\ SumOver(expanded, Keys) = 3
    /\ ret # None
    /\ Len(ret[1]) = 0

\* A size query, sequential or parallel, has returned on the crawled root
\* of a wrapper with a Store.
RootSized ==
    /\ entry = CrawledRoot
    /\ storage # None
    /\ mpc = "idle"
    /\ qres.op \in {"calculate_size", "calculate_size_multi"}

SizeOf == [i \in Nodes(fs) |-> StatSize(i)]

TookEffectLast == hist[2]

TookEffectBefore == hist[1]

\* C9: a get that follows set(k, v) returns v; pull_out(k) returns what was
\* under k, or none, and a get that follows it (or a remove) returns none;
\* remove(k) leaves the map pull_out(k) leaves, the one without k; no call
\* changes what is under another key.
C9_StoreRoundTrip ==
    LET h == TookEffectLast
        g == TookEffectBefore
        under(m, k) == IF k \in DOMAIN m THEN Some(m[k]) ELSE None
    IN  /\ (h.op = "get" /\ g.op = "set" /\ g.key = h.key) => h.ret = Some(g.val)
        /\ h.op = "set" => under(h.after, h.key) = Some(h.val)
        /\ h.op = "pull_out" => h.ret = under(h.before, h.key)
        /\ (h.op = "get" /\ g.op \in {"pull_out", "remove"} /\ g.key = h.key)
             => h.ret = None
        /\ h.op \in {"pull_out", "remove"} => under(h.after, h.key) = None
        /\ h.op # "none" =>
             \A x \in StoreKeys \ {h.key} : under(h.after, x) = under(h.before, x)
        /\ h.op = "get" => h.after = h.before

\* set(1, "b") on a Store that held "a" under both keys, then get(1)
\* returning "b".
C9_Witness ==
    /\ TookEffectBefore.op = "set"
    /\ TookEffectBefore.key = 1
    /\ TookEffectBefore.val = "b"
    /\ TookEffectBefore.before = [x \in StoreKeys |-> "a"]
    /\ TookEffectLast.op = "get"
    /\ TookEffectLast.key = 1
    /\ TookEffectLast.ret = Some("b")
    /\ \A c \in Workers : client[c].pc = "idle"

\* C10: whatever the threads and their interleaving, each call returns what
\* it returns when the calls run alone, one at a time, each at the moment it
\* took effect between its start and its return: a get returns the value of
\* the last set that took effect on its key, and pull_out hands out each
\* value put under a key at most once.
C10_CallsTakeEffectOneAtATime ==
    /\ \A c \in Workers :
         (client[c].pc = "idle" /\ client[c].op # "none")
           => client[c].ret = client[c].exp
    /\ \A k \in StoreKeys : npulled[k] <= nset[k]
    /\ (TookEffectLast.op = "get" /\ TookEffectBefore.op = "set" /\ TookEffectBefore.key = TookEffectLast.key)
         => TookEffectLast.ret = Some(TookEffectBefore.val)
    /\ (TookEffectLast.op = "pull_out" /\ TookEffectBefore.op = "pull_out"
          /\ TookEffectBefore.key = TookEffectLast.key) => TookEffectLast.ret = None

\* Two threads called pull_out on the same key, which held a value, the
\* second while the first was inside its call: one got the value, the other
\* none.
C10_Witness ==
    /\ ncpu = 2
    /\ ops = 2
    /\ \A c \in Workers : client[c].pc = "idle" /\ client[c].op = "pull_out"
    /\ client[1].key = client[2].key
    /\ TookEffectBefore.ret # None
    /\ TookEffectLast.ret = None
    /\ TookEffectBefore.by # TookEffectLast.by
    /\ TookEffectBefore.overlapped

\* Thread c is inside the body of a Store call: it holds the guard.
InsideCall(c) == client[c].pc \in {"find", "apply"}

\* Thread c has made a Store call and waits in self.map.lock().
WaitsForLock(c) == client[c].pc = "lock" /\ ~LockFree

\* C11 as stated: a Store call waits only for a call on the same key: no
\* thread waits in a call on one key while another thread is inside a call
\* on another key.
C11_WaitsOnlyForSameKey ==
    \A c, d \in Workers :
      (WaitsForLock(c) /\ d # c /\ InsideCall(d)) => client[c].key = client[d].key

\* C11 as amended: the Store serializes any two calls, whatever their keys:
\* at most one thread is inside a call, and a call waits exactly while some
\* other thread is inside a call, on the same key or on another.
C11_OneCallAtATime ==
    /\ \A c, d \in Workers : (InsideCall(c) /\ InsideCall(d)) => c = d
    /\ \A c \in Workers : InsideCall(c) => lock = c
    /\ \A c \in Workers :
         client[c].pc = "lock" =>
           (WaitsForLock(c) <=> \E d \in Workers \ {c} : InsideCall(d))

\* A set on key 1 waits while another thread is inside a get on key 2.
C11_Witness ==
    /\ WaitsForLock(1)
    /\ client[1].op = "set"
    /\ client[1].key = 1
    /\ InsideCall(2)
    /\ client[2].op = "get"
    /\ client[2].key = 2

\* The pcs at which a worker is inside the body of a Store call.
InStoreCall == {"store_file_set", "store_task_set", "get_read"}

\* C12: no thread holds the Store's lock while it lists a directory or
\* captures a child: the lock is held only by a worker inside one set or
\* get, never by a worker that is about to call get_load_children and never
\* when the calling thread lists the root.
C12_NoLockAcrossFilesystemCall ==
    /\ lock # 0 => (lock \in Workers /\ wpc[lock] \in InStoreCall)
    /\ \A w \in Workers : wpc[w] = "expand" => lock # w
    /\ mpc = "idle" => lock = 0

\* One worker is inside set for its task while the other is about to list
\* a Directory.
C12_Witness ==
    /\ ncpu = 2
    /\ lock = 1
    /\ wpc[1] = "store_task_set"
    /\ wpc[2] = "expand"

\* The objects directly inside Directory k of which an Entry can be made,
\* in listing order.
DirectChildren(k) == SelectSeq(ReadDir(k), LAMBDA i : fs.nodes[i].st # "bad")

\* C13: without a Store, load_all_children leaves no Store behind and gives
\* the root the keys of its direct children only; count_entries on the
\* displayed Directory is the number of its direct children and
\* calculate_size is 0, however deep the tree is.
C13_NoStoreOnlyDirectChildren ==
    (storage = None /\ IsDir(entry)) =>
      /\ GetFormatPath(entry) = Root
      /\ CrawlReturned => entry.children = DirectChildren(Root)
      /\ qres.op = "count_entries" => qres.val = Len(entry.children)
      /\ (qres.op = "count_entries" /\ CrawlReturned)
           => qres.val = Len(DirectChildren(Root))
      /\ qres.op = "calculate_size" => qres.val = 0

\* Without a Store, count_entries returned 1 for a crawled root whose only
\* child is a Directory holding two more objects.
C13_Witness ==
    /\ storage = None
    /\ RootCrawled
    /\ qres = [op |-> "count_entries", val |-> 1]
    /\ Len(fs.nodes) = 3
    /\ fs.nodes[2].parent = 1
    /\ fs.nodes[3].parent = 1
    /\ fs.nodes[2].st = "file"

\* The last replace_from_storage call was made with the parent key of the
\* entry displayed then: navigate to parent.
NavigatedToParent ==
    /\ storage # None
    /\ mpc = "idle"
    /\ lastNav.called
    /\ lastNav.parent = Some(lastNav.key)

\* C14: after load_all_children with a Store, replace_from_storage with the
\* parent key of the displayed entry makes the wrapper display the entry
\* with that key, also when the displayed entry is a direct child of the
\* crawl root.
C14_ParentNavigationDisplaysParent ==
    NavigatedToParent => GetFormatPath(entry) = lastNav.key

RECURSIVE IsElement(_, _)
IsElement(x, seq) ==
    seq # <<>> /\ (Head(seq) = x \/ IsElement(x, Tail(seq)))

\* The last replace_from_storage call was made with one of the children
\* keys of the entry displayed then: navigate into child.
NavigatedIntoChild ==
    /\ storage # None
    /\ mpc = "idle"
    /\ lastNav.called
    /\ IsElement(lastNav.key, lastNav.children)

\* C15: after load_all_children with a Store, replace_from_storage with a
\* key of get_children() of the displayed entry makes the wrapper display
\* the entry with that key, with all of that entry's own children keys.
C15_ChildNavigationDisplaysChild ==
    NavigatedIntoChild =>
      /\ GetFormatPath(entry) = lastNav.key
      /\ GetChildren(entry) = DirectChildren(lastNav.key)
      /\ entry = CrawledStore[lastNav.key]

\* The wrapper went from the root into a sub-directory and from there into
\* a sub-directory of it, which holds one file.
C15_Witness ==
    /\ NavigatedIntoChild
    /\ GetFormatPath(entry) = 2
    /\ GetParent(entry) = Some(1)
    /\ GetChildren(entry) = <<3>>
    /\ fs.nodes[3].st = "file"

\* The entries of the tree below key k.
EntriesBelow(k) == {i \in Captured : IsBelow(i, k)}

\* What the count and the size queries return on the displayed Directory,
\* as the tree alone gives it.
ExpectedResult(op) ==
    CASE op \in {"count_entries", "count_entries_multi"} ->
           IF storage = None
             THEN Len(entry.children)
             ELSE Cardinality(EntriesBelow(GetFormatPath(entry)))
      [] op \in {"calculate_size", "calculate_size_multi"} ->
           IF storage = None
             THEN 0
             ELSE SumOver(SizeOf, EntriesBelow(GetFormatPath(entry)))
      [] OTHER -> 0

\* C16: the aggregate queries, sequential and parallel, only read: no step
\* of a query changes the Store or the displayed entry, the stored
\* Directories keep their children lists, and a query called again right
\* after itself, or after any other query, returns what it returned before.
C16_QueriesOnlyRead ==
    /\ [](qres.op # "none" => qres.val = ExpectedResult(qres.op))
    /\ [](storage # None => storage[1] = CrawledStore)
    /\ [][/\ storage' = storage
          /\ entry' = entry
          /\ (qres.op # "none" /\ qres'.op = qres.op) => qres'.val = qres.val]_vars

\* The sequential count_entries has returned 3 on a root whose
\* sub-directory, holding two files, still has both children keys in the
\* Store.
C16_Witness ==
    /\ entry = CrawledRoot
    /\ qres = [op |-> "count_entries", val |-> 3]
    /\ storage # None
    /\ 1 \in DOMAIN storage[1]
    /\ storage[1][1].children = <<2, 3>>
    /\ GetChildren(entry) = <<1>>

\* Some worker of the running call has left its loop.
SomeWorkerExited ==
    mpc \in {"join", "multi_join"} /\ \E w \in Workers : wpc[w] = "exited"

\* No work is left: both kinds of queue are empty and no worker holds a
\* task it got from find_task and has not finished.
NoWorkLeft ==
    /\ queue = <<>>
    /\ \A w \in Workers : local[w] = <<>>
    /\ \A w \in Workers : task[w] = None

\* C17: when a worker leaves its loop there is no work left: the Injector
\* and every local deque are empty and no other worker holds an unfinished
\* task.  (Once that is so no work can appear, so it is stated for every
\* state in which a worker has left.)
C17_NoWorkLeftAtExit ==
    SomeWorkerExited => NoWorkLeft

\* The pcs of a worker between find_task returning a task and the
\* decrement that ends the task.
TaskPcs ==
    {"inc", "expand", "send", "push", "store_file", "store_file_set", "store_task",
     "store_task_set", "get", "get_read", "dec"}

\* The workers that hold a task they got from find_task and have not
\* finished.
HoldingTask == {w \in Workers : wpc[w] \in TaskPcs}

\* C18: in every state of a running call the in-flight counter is the
\* number of tasks picked up and not finished, so it is at least 1 whenever
\* a worker holds such a task.
C18_CounterIsTasksInFlight ==
    mpc \in {"join", "multi_join"} =>
      /\ counter = Cardinality(HoldingTask)
      /\ HoldingTask # {} => counter >= 1

\* The pcs of a worker inside find_task after its own deque gave nothing:
\* at the Injector, and at the stealers.
GlobalPcs == {"steal_global", "cas_global"}

PeerPcs == {"steal_peer", "cas_peer"}

\* Worker w takes a step of find_task.
FindTaskStep(w) ==
    /\ wpc[w] \in {"find"} \cup GlobalPcs \cup PeerPcs
    /\ <<wpc[w], speer[w]>> # <<wpc'[w], speer'[w]>>

\* The task find_task has just returned to worker w is in no queue and in
\* no other worker's hands.
RemovedFromEveryQueue(w) ==
    LET k == TaskId(task[w][1])
    IN  /\ Occurrences(k, queue) = 0
        /\ \A v \in Workers : Occurrences(k, local[v]) = 0
        /\ \A v \in Workers \ {w} : task[v] # None => TaskId(task[v][1]) # k

\* What holds in every state of a running call: a worker looks elsewhere
\* only while its own deque is empty, a pass starts with no Retry seen, and
\* a returned task is out of every queue.
FindTaskState ==
    mpc \in {"join", "multi_join"} =>
      \A w \in Workers :
        /\ wpc[w] \in GlobalPcs \cup PeerPcs => local[w] = <<>>
        /\ wpc[w] \in GlobalPcs => ~sretry[w]
        /\ wpc[w] \in PeerPcs => speer[w] \in 1 .. ncpu
        /\ wpc[w] = "inc" => task[w] # None /\ RemovedFromEveryQueue(w)

\* What holds of every step worker w takes inside find_task.
FindTaskOrder(w) ==
    \* own deque first: its front is returned, nothing else is touched
    /\ wpc[w] = "find" /\ local[w] # <<>> =>
          /\ wpc'[w] = "inc"
          /\ task'[w] = Some(Head(local[w]))
          /\ local' = [local EXCEPT ![w] = Tail(@)]
          /\ queue' = queue
    \* otherwise the Injector is next, and no queue has changed yet
    /\ wpc[w] = "find" /\ local[w] = <<>> =>
          wpc'[w] = "steal_global" /\ queue' = queue /\ local' = local
    \* a task from the Injector: one item returned, a batch moved to the
    \* worker's own deque
    /\ wpc[w] \in GlobalPcs /\ wpc'[w] = "inc" =>
          /\ task'[w] = Some(Head(queue))
          /\ \E n \in 1 .. Len(queue) :
                /\ local' = [local EXCEPT ![w] = @ \o SubSeq(queue, 2, n)]
                /\ queue' = SubSeq(queue, n + 1, Len(queue))
    \* the stealers come after the Injector, first to last
    /\ wpc[w] \in GlobalPcs /\ wpc'[w] \notin GlobalPcs \cup {"inc"} =>
          wpc'[w] = "steal_peer" /\ speer'[w] = 1
    /\ wpc[w] \in PeerPcs /\ wpc'[w] \in PeerPcs =>
          speer'[w] = IF wpc'[w] = "cas_peer" THEN speer[w] ELSE speer[w] + 1
    /\ wpc[w] \in PeerPcs /\ wpc'[w] = "inc" =>
          /\ task'[w] = Some(Head(local[speer[w]]))
          /\ local' = [local EXCEPT ![speer[w]] = Tail(@)]
          /\ queue' = queue
    \* the pass is repeated when, and only when, it ends with a Retry seen
    /\ wpc[w] \in PeerPcs /\ wpc'[w] = "steal_global" =>
          speer[w] = ncpu /\ (sretry[w] \/ wpc[w] = "cas_peer")
    \* none-found: the last stealer reports Empty and no Retry was seen
    /\ wpc'[w] = "chk_counter" =>
          /\ wpc[w] = "steal_peer"
          /\ speer[w] = ncpu
          /\ local[ncpu] = <<>>
          /\ ~sretry[w]
    /\ wpc'[w] \in {"inc", "steal_global", "steal_peer", "cas_global", "cas_peer",
                    "chk_counter"}

\* C19: find_task returns the front of the worker's own deque whenever it
\* is not empty, touching nothing else; otherwise it tries the Injector
\* (one item returned, a batch moved to the own deque) and then the
\* stealers in their fixed order; it repeats the pass when a steal
\* reported Retry and answers none-found only at the end of a pass in
\* which every source reported Empty; a returned task is in no queue.
C19_FindTaskSourceOrder ==
    /\ []FindTaskState
    /\ [][\A w \in Workers : FindTaskStep(w) => FindTaskOrder(w)]_vars

\* A worker has seen a Retry in its pass over the stealers while another
\* worker holds the task find_task has just returned to it.
C19_Witness ==
    /\ mpc = "join"
    /\ \E w, v \in Workers :
         /\ wpc[w] = "steal_peer" /\ sretry[w]
         /\ wpc[v] = "inc" /\ task[v] # None

\* The pcs of a crawl worker that owns a task: from find_task's return to
\* the call of set that moves the task into the Store.
OwningPcs ==
    {"inc", "expand", "send", "push", "store_file", "store_file_set", "store_task",
     "store_task_set"}

\* The Directory tasks workers are listing or are about to store.
OwnedDirectories ==
    {w \in Workers : /\ mode = "crawl"
                     /\ wpc[w] \in OwningPcs
                     /\ task[w] # None
                     /\ IsDir(task[w][1])}

\* The children list of Directory k once it is fully populated: the keys
\* of the objects read_dir lists in k that can be captured, in order.
ListedKeys(k) ==
    IF NodeSt(k) = "nolist"
      THEN <<>>
      ELSE SelectSeq(ReadDir(k), LAMBDA i : NodeSt(i) # "bad")

\* C20: while a worker lists and fills a Directory task, the Store has no
\* entry under that Directory's key, and whatever Directory entry the
\* Store holds carries its complete children list: a Directory with a
\* partly filled list is never in the Store.
C20_ExpansionOnOwnedCopy ==
    storage # None =>
      /\ \A w \in OwnedDirectories :
           GetFormatPath(task[w][1]) \notin DOMAIN storage[1]
      /\ \A k \in DOMAIN storage[1] :
           IsDir(storage[1][k]) => storage[1][k].children = ListedKeys(k)

\* A worker is about to store a Directory it has filled with children,
\* whose key the Store does not hold, while the Store already holds another
\* Directory with its children.
C20_Witness ==
    /\ storage # None
    /\ \E w \in OwnedDirectories :
         /\ wpc[w] = "store_task_set"
         /\ task[w][1].children # <<>>
         /\ GetFormatPath(task[w][1]) \notin DOMAIN storage[1]
         /\ \E k \in DOMAIN storage[1] :
              IsDir(storage[1][k]) /\ storage[1][k].children # <<>>

\* How many times x is in seq.
CountIn(x, seq) == Cardinality({i \in 1 .. Len(seq) : seq[i] = x})

\* The Directories the last crawl listed: the one it was called on and the
\* Directories below it.
ExpandedDirectories ==
    {lastCall.key} \cup {j \in Nodes(fs) : /\ IsBelow(j, lastCall.key)
                                            /\ NodeSt(j) \in {"dir", "nolist"}}

\* The objects read_dir lists in Directory k of which no Entry could be
\* made.
FailedChildren(k) ==
    IF NodeSt(k) = "nolist"
      THEN {}
      ELSE {i \in Nodes(fs) : fs.nodes[i].parent = k /\ NodeSt(i) = "bad"}

\* The children list is the list of the captured children of Directory k:
\* their keys in listing order, each once, no failed child among them.
ChildrenAsListed(children, k) ==
    /\ children = ListedKeys(k)
    /\ \A i \in 1 .. Len(children) :
         /\ CountIn(children[i], children) = 1
         /\ fs.nodes[children[i]].parent = k
         /\ children[i] \in Captured
    /\ \A i, j \in 1 .. Len(children) : i < j => children[i] < children[j]
    /\ \A i \in FailedChildren(k) : CountIn(i, children) = 0

\* C21: after a crawl the children list of every expanded Directory, the
\* one the wrapper holds and every one in the Store, is the list of the
\* keys of its captured direct children, each once and in listing order; a
\* child whose capture failed is not in the list and is in the returned
\* errors exactly once.
C21_ChildrenListIsListing ==
    CrawlReturned =>
      /\ IsDir(entry) => ChildrenAsListed(entry.children, GetFormatPath(entry))
      /\ storage # None =>
           \A k \in DOMAIN storage[1] :
             IsDir(storage[1][k]) => ChildrenAsListed(storage[1][k].children, k)
      /\ \A d \in ExpandedDirectories :
           \A i \in FailedChildren(d) : CountIn(CaptureError(i), ret[1]) = 1

\* A crawl has returned from a root whose listing is a file, a child of
\* which no Entry could be made, and another file: the root lists the two
\* files in that order and one error was returned.
C21_Witness ==
    /\ RootCrawled
    /\ storage # None
    /\ Len(fs.nodes) = 3
    /\ NodeSt(2) = "bad"
    /\ entry.children = <<1, 3>>
    /\ ret = Some(<<CaptureError(2)>>)

\* The entries at hand after a crawl: the one the wrapper holds and the
\* ones in the Store.
HeldAndStored == {entry} \cup {storage[1][k] : k \in DOMAIN storage[1]}

\* The keys of the Directories at hand whose children list has key k.
Listers(k) ==
    {GetFormatPath(e) : e \in {d \in HeldAndStored :
                                 IsDir(d) /\ CountIn(k, d.children) >= 1}}

\* C22: after a crawl every stored entry has a parent key; the Directory
\* with that key is the only one whose children list has the entry, and has
\* it once; that Directory is in the Store, or is the root the wrapper
\* holds; and the root the wrapper holds has no parent key.
C22_ParentChildConsistent ==
    (CrawlReturned /\ storage # None) =>
      /\ \A k \in DOMAIN storage[1] :
           LET e == storage[1][k]
           IN  /\ GetParent(e) # None
               /\ Listers(k) \subseteq {GetParent(e)[1]}
               /\ GetParent(e)[1] # Root => GetParent(e)[1] \in DOMAIN storage[1]
               /\ (GetParent(e)[1] # Root \/ GetFormatPath(entry) = Root) =>
                     /\ Listers(k) = {GetParent(e)[1]}
                     /\ \A d \in HeldAndStored :
                          GetFormatPath(d) = GetParent(e)[1] =>
                            CountIn(k, d.children) = 1
      /\ GetFormatPath(entry) = Root => GetParent(entry) = None

\* A crawl has returned from a root over a chain of two Directories and a
\* file: each stored entry names the Directory above it, the root names
\* none.
C22_Witness ==
    /\ RootCrawled
    /\ storage # None
    /\ DOMAIN storage[1] = {1, 2, 3}
    /\ GetParent(storage[1][3]) = Some(2)
    /\ GetParent(storage[1][2]) = Some(1)
    /\ GetParent(storage[1][1]) = Some(Root)
    /\ GetParent(entry) = None

\* A parallel query has returned.
MultiReturned ==
    mpc = "idle" /\ qres.op \in {QueryName("count"), QueryName("size")}

\* What the sequential variant of the returned parallel query returns on
\* the same entry and Store.
SequentialResult ==
    IF qres.op = QueryName("count")
      THEN DirCountEntries(entry, storage)
      ELSE DirCalculateSize(entry, storage)

\* The keys a walk from the displayed Directory reaches in the Store.
RECURSIVE ReachedKeys(_, _)
ReachedKeys(stack, seen) ==
    IF stack = <<>>
      THEN seen
      ELSE LET got == MapGet(storage[1], Head(stack))
           IN  ReachedKeys(Tail(stack) \o (IF got # None /\ IsDir(got[1])
                                             THEN got[1].children
                                             ELSE <<>>),
                           seen \cup {Head(stack)})

\* C23: whatever the interleaving of the workers, count_entries_multi and
\* calculate_size_all_children_multi return what count_entries and
\* calculate_size_all_children return on the same Directory and Store; the
\* parallel walk looks up every key it can reach exactly once, and no key
\* twice while it runs; and a parallel call that has started returns.
C23_ParallelAgreesWithSequential ==
    /\ [](MultiReturned =>
            /\ qres.val = SequentialResult
            /\ storage # None =>
                 \A k \in Keys :
                   expanded[k] = IF k \in ReachedKeys(entry.children, {}) THEN 1 ELSE 0)
    /\ [](mpc = "multi_join" => \A k \in Keys : expanded[k] <= 1)
    /\ (mpc = "multi_join" ~> MultiReturned)

\* Two workers have counted the three entries below the root, each looked
\* up once, one of them two levels down.
C23_Witness ==
    /\ MultiReturned
    /\ ncpu = 2
    /\ entry = CrawledRoot
    /\ storage # None
    /\ qres = [op |-> "count_entries_multi", val |-> 3]
    /\ DirCountEntries(entry, storage) = 3
    /\ \A k \in DOMAIN storage[1] : expanded[k] = 1
    /\ \E k \in DOMAIN storage[1] : GetParent(storage[1][k]) # Some(Root)

\* Some task is queued, or held by a worker that has not finished it.
WorkPending ==
    \/ queue # <<>>
    \/ \E w \in Workers : local[w] # <<>>
    \/ \E w \in Workers : wpc[w] \in TaskPcs

\* The workers that have left their loop.
ExitedWorkers == {w \in Workers : wpc[w] \in {"exited", "panicked"}}

\* C24: while a task is queued, in the Injector or in a local deque, or is
\* held unfinished, some worker is still in its loop; and a worker that has
\* left its loop has an empty local deque and holds nothing.
C24_WorkNeverStranded ==
    mpc \in {"join", "multi_join"} =>
      /\ WorkPending => ExitedWorkers # Workers
      /\ \A w \in ExitedWorkers :
           /\ local[w] = <<>>
           /\ task[w] = None
           /\ wpush[w] = <<>>
           /\ wfiles[w] = <<>>
           /\ werrs[w] = <<>>

\* One worker has left its loop early; the other has since pushed a
\* Directory on the Injector and goes on.
C24_Witness ==
    /\ mpc = "join"
    /\ queue # <<>>
    /\ \E w, v \in Workers :
         /\ wpc[w] = "exited"
         /\ wpc[v] \in TaskPcs

\* The keys in a children list that are not in the Store.
NotStored(children) ==
    {children[i] : i \in 1 .. Len(children)} \ DOMAIN storage[1]

\* The keys of File entries in a children list.
FileKeys(children) ==
    {children[i] : i \in {j \in 1 .. Len(children) : NodeSt(children[j]) = "file"}}

\* C25: in every state, the File keys in the children list of a stored
\* Directory, and of the Directory the wrapper holds, are in the Store;
\* and once load_all_children has returned so is every key in those lists.
C25_StoreClosedUnderChildren ==
    storage # None =>
      /\ \A k \in DOMAIN storage[1] :
           IsDir(storage[1][k]) =>
             FileKeys(storage[1][k].children) \subseteq DOMAIN storage[1]
      /\ IsDir(entry) => FileKeys(entry.children) \subseteq DOMAIN storage[1]
      /\ CrawlReturned =>
           /\ IsDir(entry) => NotStored(entry.children) = {}
           /\ \A k \in DOMAIN storage[1] :
                IsDir(storage[1][k]) => NotStored(storage[1][k].children) = {}

\* The crawl is running; a Directory is in the Store with a File child
\* that is stored and a Directory child that is not stored yet.
C25_Witness ==
    /\ mpc = "join"
    /\ storage # None
    /\ \E k \in DOMAIN storage[1] :
         /\ IsDir(storage[1][k])
         /\ FileKeys(storage[1][k].children) # {}
         /\ NotStored(storage[1][k].children) # {}

\* The key worker w is about to write with set, in a one-element set; empty
\* when w is not inside set.
KeyBeingSet(w) ==
    IF wpc[w] = "store_file_set" THEN {GetFormatPath(Last(wfiles[w]))}
    ELSE IF wpc[w] = "store_task_set" THEN {GetFormatPath(task[w][1])}
    ELSE {}

\* The keys the calling thread writes when load_all_children starts on the
\* displayed Directory.
KeysSetAtStart == KeySet(FileEntries(GetLoadChildren(entry).entries))

\* The keys a step writes with set.
KeysSet ==
    IF mpc = "idle" /\ mpc' = "join"
      THEN KeysSetAtStart
      ELSE UNION {IF wpc'[w] # wpc[w] THEN KeyBeingSet(w) ELSE {} : w \in Workers}

\* C26: no step takes a key out of the Store or changes what is stored
\* under a key; a key that appears was written by a set of that step; and
\* no set writes a key the Store already has: each key is written once.
C26_StoreOnlyGrows ==
    [][(storage # None /\ storage' # None) =>
         /\ DOMAIN storage[1] \subseteq DOMAIN storage'[1]
         /\ \A k \in DOMAIN storage[1] : storage'[1][k] = storage[1][k]
         /\ DOMAIN storage'[1] \ DOMAIN storage[1] = KeysSet
         /\ KeysSet \cap DOMAIN storage[1] = {}]_vars

\* The crawl is running, two keys are in the Store and a worker is inside
\* set with a third key.
C26_Witness ==
    /\ mpc = "join"
    /\ storage # None
    /\ Cardinality(DOMAIN storage[1]) = 2
    /\ \E w \in Workers :
         /\ KeyBeingSet(w) # {}
         /\ KeyBeingSet(w) \cap DOMAIN storage[1] = {}

\* C27: the root is never in the Store, whatever has been crawled; so a
\* replace_from_storage with the root's key leaves the wrapper's entry as
\* it was.
C27_RootNeverStored ==
    /\ [](storage # None => Root \notin DOMAIN storage[1])
    /\ [][(lastNav'.called /\ lastNav'.key = Root) => entry' = entry]_vars

\* After a crawl the wrapper displays a child of the root;
\* replace_from_storage was called with the root's key and the child is
\* still displayed.
C27_Witness ==
    /\ CrawlReturned
    /\ storage # None
    /\ lastNav.called
    /\ lastNav.key = Root
    /\ GetFormatPath(entry) # Root
    /\ GetParent(entry) = Some(Root)
    /\ GetFormatPath(entry) \in DOMAIN storage[1]

\* A step is a replace_from_storage call.
ReplaceCalled == lastNav'.called /\ lastNav' # lastNav

\* C28: a replace_from_storage call leaves the Store as it is; without a
\* Store, or with a key the Store does not have, it leaves the displayed
\* entry as it is, and otherwise displays the stored entry; it returns
\* nothing and does not fail.
C28_ReplaceOnlyReads ==
    [][ReplaceCalled =>
         /\ storage' = storage
         /\ (storage = None \/ lastNav'.key \notin DOMAIN storage[1]) => entry' = entry
         /\ (storage # None /\ lastNav'.key \in DOMAIN storage[1]) =>
              entry' = storage[1][lastNav'.key]
         /\ ret' = ret
         /\ lastCall' = lastCall
         /\ mpc' = "idle"]_vars

\* Without a Store, after a crawl, replace_from_storage was called with
\* the key of a child of the root: the root is still displayed.
C28_Witness ==
    /\ RootCrawled
    /\ storage = None
    /\ lastNav.called
    /\ IsElement(lastNav.key, GetChildren(entry))

\* Every object between k and Directory top, both left out, is in the
\* Store: a walk from top gets as far as looking k up.
RECURSIVE PathStored(_, _)
PathStored(k, top) ==
    \/ fs.nodes[k].parent = top
    \/ /\ fs.nodes[k].parent # Root
       /\ fs.nodes[k].parent \in DOMAIN storage[1]
       /\ PathStored(fs.nodes[k].parent, top)

\* The keys a walk from the displayed Directory looks up ...
LookedUp ==
    {k \in Captured : IsBelow(k, GetFormatPath(entry)) /\ PathStored(k, GetFormatPath(entry))}

\* ... and the ones among them the Store has.
Resolved == LookedUp \cap DOMAIN storage[1]

\* A query has returned on a Store that lacks a key the walk looks up.
AbsentKeyMet ==
    /\ mpc = "idle"
    /\ qres.op # "none"
    /\ storage # None
    /\ LookedUp \ DOMAIN storage[1] # {}

\* C29: a key the Store does not have adds nothing to count_entries and
\* calculate_size, sequential or parallel; nothing below it is visited; the
\* walk goes on with the other keys and the query returns what the resolved
\* keys add up to.  The parallel walk looks every such key up once.
C29_AbsentKeySkipped ==
    /\ (mpc = "idle" /\ qres.op # "none" /\ storage # None) =>
         qres.val = IF qres.op \in {"count_entries", QueryName("count")}
                      THEN Cardinality(Resolved)
                      ELSE SumOver(SizeOf, Resolved)
    /\ (MultiReturned /\ storage # None) =>
         \A k \in Keys : expanded[k] = IF k \in LookedUp THEN 1 ELSE 0
    /\ \A w \in Workers : wpc[w] # "panicked"

\* The sequential count_entries returned 1 on a root with a sub-directory
\* the Store lacks, a file stored below that sub-directory, and a file
\* beside it.
C29_Witness ==
    /\ AbsentKeyMet
    /\ entry = CrawledRoot
    /\ qres = [op |-> "count_entries", val |-> 1]
    /\ Cardinality(DOMAIN storage[1]) = 2
    /\ GetChildren(entry) = <<1, 3>>
    /\ 1 \notin DOMAIN storage[1]
    /\ GetParent(storage[1][2]) = Some(1)

\* The workers that have incremented the counter for the task they hold
\* and have not decremented it yet.
Counted == {w \in Workers : wpc[w] \in TaskPcs \ {"inc"}}

====
